---- MODULE Spec2Model ----
(***************************************************************************)
(* Model of the logjam backend: the Page aggregate (domain/aggregates.rs,  *)
(* domain/entities.rs) and the relational page repository                  *)
(* (infrastructure/persistence).                                           *)
(***************************************************************************)
EXTENDS Bags, FiniteSets, Integers, Naturals, Sequences, TLC

(* ------------------------------ bounds -------------------------------- *)

\* number of mutating calls (add_block, remove_block, save, delete) in a run
MaxOps == 5

\* largest indent level handed to Block::new_child
MaxIndent == 1

\* the block ids the callers draw from
BlockIds == {1, 2, 3}

\* number of mutating calls in a run that uses the repository
MaxRepoOps == 4

\* number of mutating calls in a run that also varies the blocks' payload
MaxCtxOps == 4

\* number of calls in a run of the callers that delete pages
MaxDelOps == 9

\* number of calls in a run of the callers that drive both repositories
MaxSubOps == 5

\* number of file changes and sync_once calls in a run
MaxSyncOps == 3

\* the largest max_concurrent_files an ImportService is built with
MaxConcurrent == 2

\* mpsc::channel(100)
ChannelCapacity == 100

\* number of calls in a run that embeds pages
MaxEmbedOps == 5

\* number of lines of a parsed file
MaxLines == 4

\* deepest indent level of a line
MaxLineIndent == 2


IndentLevels == 0..MaxIndent

\* Option::None of parent_id: Option<BlockId>
None == 0

(* --------------------------- value objects ---------------------------- *)

\* PageReference { title, is_tag }
PageRef(title, is_tag) == [title |-> title, is_tag |-> is_tag]

\* (content, urls, page_references) a caller gives a block before add_block
Payloads ==
  { [content |-> "c1", urls |-> <<>>, page_references |-> <<>>],
    [content |-> "c2", urls |-> <<"u1">>,
     page_references |-> <<PageRef("r1", FALSE), PageRef("r1", TRUE)>>],
    [content |-> "c1", urls |-> <<"u1", "u2">>,
     page_references |-> <<PageRef("r2", FALSE)>>] }

(* ------------------------------ helpers ------------------------------- *)

\* Vec::contains
Contains(seq, x) == \E i \in 1..Len(seq) : seq[i] = x

\* Vec::retain(|e| e != x)
Retain(seq, x) == SelectSeq(seq, LAMBDA e : e # x)

\* the elements of a sequence
Range(seq) == { seq[i] : i \in 1..Len(seq) }

\* number of occurrences of x in seq
Count(seq, x) == Cardinality({ i \in 1..Len(seq) : seq[i] = x })

\* HashMap::insert
MapInsert(map, k, v) == (k :> v) @@ map

\* HashMap::remove
MapRemove(map, k) == [x \in DOMAIN map \ {k} |-> map[x]]

\* all orders in which the elements of a finite set can be iterated
Orders(S) ==
  { seq \in [1..Cardinality(S) -> S] : \A x \in S : \E i \in DOMAIN seq : seq[i] = x }

(* -------------------------------- Block ------------------------------- *)

\* Block::new_root
new_root(id, content) ==
  [id |-> id, content |-> content, indent_level |-> 0, parent_id |-> None,
   child_ids |-> <<>>, urls |-> <<>>, page_references |-> <<>>]

\* Block::new_child
new_child(id, content, parent_id, indent_level) ==
  [id |-> id, content |-> content, indent_level |-> indent_level,
   parent_id |-> parent_id,
   child_ids |-> <<>>, urls |-> <<>>, page_references |-> <<>>]

\* Block::add_child with the new child put in front of its siblings
add_child_front(block, child_id) ==
  IF Contains(block.child_ids, child_id) THEN block
  ELSE [block EXCEPT !.child_ids = <<child_id>> \o @]

\* Block::add_child
add_child(block, child_id) ==
  IF Contains(block.child_ids, child_id) THEN block
  ELSE [block EXCEPT !.child_ids = Append(@, child_id)]

\* Block::remove_child
remove_child(block, child_id) ==
  [block EXCEPT !.child_ids = Retain(@, child_id)]

\* Block::add_url
add_url(block, url) ==
  IF Contains(block.urls, url) THEN block
  ELSE [block EXCEPT !.urls = Append(@, url)]

\* Block::add_page_reference
add_page_reference(block, reference) ==
  IF Contains(block.page_references, reference) THEN block
  ELSE [block EXCEPT !.page_references = Append(@, reference)]

RECURSIVE add_urls(_, _)
\* for url in urls { block.add_url(url) }
add_urls(block, urls) ==
  IF urls = <<>> THEN block
  ELSE add_urls(add_url(block, Head(urls)), Tail(urls))

RECURSIVE add_page_references(_, _)
\* for r in refs { block.add_page_reference(r) }
add_page_references(block, refs) ==
  IF refs = <<>> THEN block
  ELSE add_page_references(add_page_reference(block, Head(refs)), Tail(refs))

\* a block as a caller builds it: new_root / new_child, then add_url and
\* add_page_reference for the payload
MakeBlock(id, parent_id, indent_level, payload) ==
  LET fresh == IF parent_id = None
               THEN new_root(id, payload.content)
               ELSE new_child(id, payload.content, parent_id, indent_level)
  IN add_page_references(add_urls(fresh, payload.urls), payload.page_references)

(* -------------------------------- Page -------------------------------- *)

\* Page::new
NewPageValue(id, title) ==
  [id |-> id, title |-> title, blocks |-> << >>, root_block_ids |-> <<>>]

\* add_block with the insertion moved before the parent check: the block is
\* in the map when the call is refused
add_block_insert_first(p, block) ==
  LET inserted == MapInsert(p.blocks, block.id, block)
  IN IF block.parent_id # None /\ block.parent_id \notin DOMAIN p.blocks
     THEN [result |-> "InvalidOperation", page |-> [p EXCEPT !.blocks = inserted]]
     ELSE IF block.parent_id # None
     THEN [result |-> "Ok",
           page |-> [p EXCEPT !.blocks =
                       [inserted EXCEPT ![block.parent_id] = add_child(@, block.id)]]]
     ELSE [result |-> "Ok",
           page |-> [p EXCEPT !.blocks = inserted,
                              !.root_block_ids =
                                 IF Contains(@, block.id) THEN @
                                 ELSE Append(@, block.id)]]

\* Page::add_block
add_block(p, block) ==
  IF block.parent_id # None /\ block.parent_id \notin DOMAIN p.blocks
  THEN [result |-> "InvalidOperation", page |-> p]
  ELSE
    LET inserted == MapInsert(p.blocks, block.id, block)
    IN IF block.parent_id # None
       THEN [result |-> "Ok",
             page |-> [p EXCEPT !.blocks =
                         [inserted EXCEPT ![block.parent_id] = add_child(@, block.id)]]]
       ELSE [result |-> "Ok",
             page |-> [p EXCEPT !.blocks = inserted,
                                !.root_block_ids =
                                   IF Contains(@, block.id) THEN @
                                   ELSE Append(@, block.id)]]

RECURSIVE remove_block(_, _)
RECURSIVE remove_children(_, _)

\* Page::remove_block
remove_block(p, id) ==
  IF id \notin DOMAIN p.blocks
  THEN [result |-> "NotFound", page |-> p]
  ELSE
    LET block == p.blocks[id]
        detached ==
          IF block.parent_id # None
          THEN IF block.parent_id \in DOMAIN p.blocks
               THEN [p EXCEPT !.blocks[block.parent_id] = remove_child(@, id)]
               ELSE p
          ELSE [p EXCEPT !.root_block_ids = Retain(@, id)]
        after == remove_children(detached, block.child_ids)
    IN IF after.result # "Ok" THEN after
       ELSE [result |-> "Ok",
             page |-> [after.page EXCEPT !.blocks = MapRemove(@, id)]]

\* the loop `for child_id in child_ids { self.remove_block(&child_id)?; }`
remove_children(p, child_ids) ==
  IF child_ids = <<>> THEN [result |-> "Ok", page |-> p]
  ELSE LET r == remove_block(p, Head(child_ids))
       IN IF r.result # "Ok" THEN r
          ELSE remove_children(r.page, Tail(child_ids))

RECURSIVE ancestors_from(_, _, _)
\* the while loop of Page::get_ancestors; visited is the set of values
\* current_id has had: the loop has no other state, so meeting one again
\* means that it never ends
ancestors_from(blocks, current_id, visited) ==
  IF current_id \notin DOMAIN blocks THEN [terminates |-> TRUE, ids |-> <<>>]
  ELSE LET parent_id == blocks[current_id].parent_id
       IN IF parent_id = None \/ parent_id \notin DOMAIN blocks
          THEN [terminates |-> TRUE, ids |-> <<>>]
          ELSE IF parent_id \in visited \cup {current_id}
          THEN [terminates |-> FALSE, ids |-> <<>>]
          ELSE LET rest == ancestors_from(blocks, parent_id, visited \cup {current_id})
               IN [terminates |-> rest.terminates,
                   ids |-> <<parent_id>> \o rest.ids]

\* Page::get_ancestors
get_ancestors(p, block_id) == ancestors_from(p.blocks, block_id, {})

RECURSIVE descendants_of(_, _, _)
RECURSIVE descendants_over(_, _, _)

\* Page::get_descendants; stack is the set of block ids whose call is in
\* progress: a recursive call for one of them repeats itself without end
descendants_of(blocks, block_id, stack) ==
  IF block_id \notin DOMAIN blocks THEN [terminates |-> TRUE, ids |-> <<>>]
  ELSE descendants_over(blocks, blocks[block_id].child_ids, stack \cup {block_id})

\* the loop `for child_id in block.child_ids()` of get_descendants
descendants_over(blocks, child_ids, stack) ==
  IF child_ids = <<>> THEN [terminates |-> TRUE, ids |-> <<>>]
  ELSE LET c == Head(child_ids)
       IN IF c \notin DOMAIN blocks
          THEN descendants_over(blocks, Tail(child_ids), stack)
          ELSE IF c \in stack THEN [terminates |-> FALSE, ids |-> <<>>]
          ELSE LET sub == descendants_of(blocks, c, stack)
                   rest == descendants_over(blocks, Tail(child_ids), stack)
               IN [terminates |-> sub.terminates /\ rest.terminates,
                   ids |-> <<c>> \o sub.ids \o rest.ids]

\* Page::get_descendants
get_descendants(p, block_id) == descendants_of(p.blocks, block_id, {})

RECURSIVE FlatRefs(_, _)
\* .into_iter().flat_map(|b| b.page_references()).collect()
FlatRefs(blocks, ids) ==
  IF ids = <<>> THEN <<>>
  ELSE blocks[Head(ids)].page_references \o FlatRefs(blocks, Tail(ids))

\* the entries get_urls_with_context pushes for one block; owner is not in
\* the tuple the code returns, it records which block the entry came from
UrlEntriesOf(p, block_id) ==
  LET block == p.blocks[block_id]
      anc == get_ancestors(p, block_id)
      desc == get_descendants(p, block_id)
  IN [terminates |-> block.urls = <<>> \/ (anc.terminates /\ desc.terminates),
      entries |-> [i \in 1..Len(block.urls) |->
                     [url |-> block.urls[i],
                      ancestor_refs |-> FlatRefs(p.blocks, anc.ids),
                      descendant_refs |-> FlatRefs(p.blocks, desc.ids),
                      owner |-> block_id]]]

RECURSIVE urls_with_context_over(_, _)
\* the loop `for block in self.blocks.values()` of get_urls_with_context
urls_with_context_over(p, order) ==
  IF order = <<>> THEN [terminates |-> TRUE, entries |-> <<>>]
  ELSE LET here == UrlEntriesOf(p, Head(order))
           rest == urls_with_context_over(p, Tail(order))
       IN [terminates |-> here.terminates /\ rest.terminates,
           entries |-> here.entries \o rest.entries]

\* Page::get_urls_with_context; order is the order in which the HashMap
\* yields the blocks
get_urls_with_context(p, order) ==
  LET r == urls_with_context_over(p, order)
  IN IF r.terminates THEN r ELSE [terminates |-> FALSE, entries |-> <<>>]

(* ----------------------- relational repository ----------------------- *)

\* the tables of schema.rs right after initialize_database; pages and blocks
\* are keyed by their PRIMARY KEY id, block_children is a set of rows keyed
\* by (parent_id, child_id), urls and page_references have an AUTOINCREMENT
\* key and so may hold the same (block_id, ...) row several times
EmptyDb ==
  [pages |-> << >>, blocks |-> << >>, block_children |-> {},
   urls |-> EmptyBag, page_references |-> EmptyBag]

\* the outcome of one SQL statement
SqlOk(d) == [ok |-> TRUE, db |-> d]
SqlErr(d) == [ok |-> FALSE, db |-> d]

RECURSIVE CascadeClosure(_, _)
\* the block rows that go when the rows S go: blocks.parent_id REFERENCES
\* blocks(id) ON DELETE CASCADE
CascadeClosure(blocks, S) ==
  LET more == S \cup { b \in DOMAIN blocks : blocks[b].parent_id \in S }
  IN IF more = S THEN S ELSE CascadeClosure(blocks, more)

\* the rows of a bag that satisfy keep
BagFilter(bag, keep(_)) ==
  [e \in { x \in DOMAIN bag : keep(x) } |-> bag[e]]

\* deleting the block rows S with the ON DELETE CASCADE of block_children,
\* urls and page_references
DeleteBlockRows(d, S) ==
  LET gone == CascadeClosure(d.blocks, S)
  IN [d EXCEPT
        !.blocks = [b \in DOMAIN d.blocks \ gone |-> d.blocks[b]],
        !.block_children =
           { r \in d.block_children : r.parent_id \notin gone /\ r.child_id \notin gone },
        !.urls = BagFilter(d.urls, LAMBDA r : r.block_id \notin gone),
        !.page_references = BagFilter(d.page_references, LAMBDA r : r.block_id \notin gone)]

\* INSERT OR REPLACE INTO pages (id, title, ...)
UpsertPageRow(d, page_id, title) ==
  SqlOk([d EXCEPT !.pages = MapInsert(d.pages, page_id, title)])

\* DELETE FROM blocks WHERE page_id = ?1
DeleteBlocksOfPage(d, page_id) ==
  SqlOk(DeleteBlockRows(d, { b \in DOMAIN d.blocks : d.blocks[b].page_id = page_id }))

\* INSERT INTO blocks (id, page_id, parent_id, content, indent_level, position, ...)
\* with position 0: refused when the id is taken (PRIMARY KEY) or when
\* parent_id names no block row (FOREIGN KEY; a row may name itself)
InsertBlockRow(d, page_id, block) ==
  IF block.id \in DOMAIN d.blocks THEN SqlErr(d)
  ELSE IF page_id \notin DOMAIN d.pages THEN SqlErr(d)
  ELSE IF block.parent_id # None /\ block.parent_id # block.id
          /\ block.parent_id \notin DOMAIN d.blocks THEN SqlErr(d)
  ELSE SqlOk([d EXCEPT !.blocks =
                MapInsert(d.blocks, block.id,
                  [page_id |-> page_id, parent_id |-> block.parent_id,
                   content |-> block.content, indent_level |-> block.indent_level,
                   position |-> 0])])

\* INSERT INTO urls (block_id, url)
InsertUrlRow(d, block_id, url) ==
  IF block_id \notin DOMAIN d.blocks THEN SqlErr(d)
  ELSE SqlOk([d EXCEPT !.urls = @ (+) SetToBag({[block_id |-> block_id, url |-> url]})])

\* INSERT INTO page_references (block_id, title, is_tag)
InsertReferenceRow(d, block_id, page_ref) ==
  IF block_id \notin DOMAIN d.blocks THEN SqlErr(d)
  ELSE SqlOk([d EXCEPT !.page_references =
                @ (+) SetToBag({[block_id |-> block_id, title |-> page_ref.title,
                                 is_tag |-> IF page_ref.is_tag THEN 1 ELSE 0]})])

\* INSERT INTO block_children (parent_id, child_id, position)
InsertChildRow(d, parent_id, child_id, position) ==
  IF \E r \in d.block_children : r.parent_id = parent_id /\ r.child_id = child_id
  THEN SqlErr(d)
  ELSE IF parent_id \notin DOMAIN d.blocks \/ child_id \notin DOMAIN d.blocks
  THEN SqlErr(d)
  ELSE SqlOk([d EXCEPT !.block_children =
                @ \cup {[parent_id |-> parent_id, child_id |-> child_id,
                         position |-> position]}])

RECURSIVE InsertUrls(_, _, _)
\* for url in block.urls() { tx.execute(INSERT INTO urls ...)?; }
InsertUrls(d, block_id, urls) ==
  IF urls = <<>> THEN SqlOk(d)
  ELSE LET r == InsertUrlRow(d, block_id, Head(urls))
       IN IF ~r.ok THEN r ELSE InsertUrls(r.db, block_id, Tail(urls))

RECURSIVE InsertReferences(_, _, _)
\* for page_ref in block.page_references() { tx.execute(INSERT INTO page_references ...)?; }
InsertReferences(d, block_id, refs) ==
  IF refs = <<>> THEN SqlOk(d)
  ELSE LET r == InsertReferenceRow(d, block_id, Head(refs))
       IN IF ~r.ok THEN r ELSE InsertReferences(r.db, block_id, Tail(refs))

RECURSIVE InsertChildren(_, _, _, _)
\* for (idx, child_id) in block.child_ids().iter().enumerate(); idx counts
\* from 0
InsertChildren(d, parent_id, child_ids, idx) ==
  IF child_ids = <<>> THEN SqlOk(d)
  ELSE LET r == InsertChildRow(d, parent_id, Head(child_ids), idx)
       IN IF ~r.ok THEN r
          ELSE InsertChildren(r.db, parent_id, Tail(child_ids), idx + 1)

RECURSIVE SortedInsert(_, _)
\* x goes after every element whose indent_level is not above its own
SortedInsert(sorted, x) ==
  IF sorted = <<>> THEN <<x>>
  ELSE IF Head(sorted).indent_level <= x.indent_level
       THEN <<Head(sorted)>> \o SortedInsert(Tail(sorted), x)
       ELSE <<x>> \o sorted

RECURSIVE sort_by_indent(_)
\* blocks.sort_by_key(|b| b.indent_level().value()): a stable sort
sort_by_indent(blocks) ==
  IF blocks = <<>> THEN <<>>
  ELSE SortedInsert(sort_by_indent(SubSeq(blocks, 1, Len(blocks) - 1)),
                    blocks[Len(blocks)])

RECURSIVE FirstPass(_, _, _)
\* first pass of save_page_transaction: the block row, its URLs, its
\* references, block after block
FirstPass(d, page_id, blocks) ==
  IF blocks = <<>> THEN SqlOk(d)
  ELSE LET block == Head(blocks)
           r1 == InsertBlockRow(d, page_id, block)
           r2 == InsertUrls(r1.db, block.id, block.urls)
           r3 == InsertReferences(r2.db, block.id, block.page_references)
       IN IF ~r1.ok THEN r1
          ELSE IF ~r2.ok THEN r2
          ELSE IF ~r3.ok THEN r3
          ELSE FirstPass(r3.db, page_id, Tail(blocks))

RECURSIVE SecondPass(_, _)
\* second pass of save_page_transaction: the block_children rows
SecondPass(d, blocks) ==
  IF blocks = <<>> THEN SqlOk(d)
  ELSE LET r == InsertChildren(d, Head(blocks).id, Head(blocks).child_ids, 0)
       IN IF ~r.ok THEN r ELSE SecondPass(r.db, Tail(blocks))

\* the steps of save_page_transaction at which the connection may fail
\* whatever the rows are (disk full, database locked, I/O error)
SaveSteps == {"begin", "upsert", "delete", "first", "second", "commit"}

\* a transaction that is dropped and keeps what it wrote
drop_transaction_keeps_writes(d, tx) == tx

\* the drop of a Transaction that was not committed: rusqlite rolls it back,
\* the database is d again, whatever tx had written
drop_transaction(d, tx) == d

\* SqlitePageRepository::save_page_transaction with an error of the
\* connection at the step io_error ("none": no such error); order is the
\* order in which page.all_blocks() yields the blocks. The statements write
\* into the transaction; `?` leaves it uncommitted and drops it
save_page_transaction_at(d, p, order, io_error) ==
  LET blocks == sort_by_indent([i \in 1..Len(order) |-> p.blocks[order[i]]])
      r1 == UpsertPageRow(d, p.id, p.title)
      r2 == DeleteBlocksOfPage(r1.db, p.id)
      r3 == FirstPass(r2.db, p.id, blocks)
      r4 == SecondPass(r3.db, blocks)
  IN IF io_error \in {"begin", "upsert"} THEN SqlErr(drop_transaction(d, d))
     ELSE IF ~r1.ok THEN SqlErr(drop_transaction(d, r1.db))
     ELSE IF io_error = "delete" \/ ~r2.ok THEN SqlErr(drop_transaction(d, r1.db))
     ELSE IF io_error = "first" THEN SqlErr(drop_transaction(d, r2.db))
     ELSE IF ~r3.ok THEN SqlErr(drop_transaction(d, r3.db))
     ELSE IF io_error = "second" THEN SqlErr(drop_transaction(d, r3.db))
     ELSE IF ~r4.ok THEN SqlErr(drop_transaction(d, r4.db))
     ELSE IF io_error = "commit" THEN SqlErr(drop_transaction(d, r4.db))
     ELSE SqlOk(r4.db)

\* SqlitePageRepository::save_page_transaction on a connection that works
save_page_transaction(d, p, order) == save_page_transaction_at(d, p, order, "none")

\* PageRepository::save for SqlitePageRepository, with an error of the
\* connection at the step io_error
save_at(d, p, order, io_error) ==
  LET r == save_page_transaction_at(d, p, order, io_error)
  IN [result |-> IF r.ok THEN "Ok" ELSE "InvalidOperation", db |-> r.db]

\* PageRepository::save for SqlitePageRepository
save(d, p, order) ==
  LET r == save_page_transaction(d, p, order)
  IN [result |-> IF r.ok THEN "Ok" ELSE "InvalidOperation", db |-> r.db]

\* the orders in which a query may return the rows of a bag
BagOrders(bag) ==
  LET n == BagCardinality(bag)
  IN { seq \in [1..n -> DOMAIN bag] : \A e \in DOMAIN bag : Count(seq, e) = bag[e] }

\* the block rows of a page
BlockRowsOf(d, page_id) == { b \in DOMAIN d.blocks : d.blocks[b].page_id = page_id }

\* the orders in which a query may return the rows of each block: the order
\* of the rows of different blocks does not reach the page, as load_page
\* files every row under its block_id (url_map, ref_map)
OrdersByBlock(bag, mine) ==
  LET of(b) == BagOrders(BagFilter(bag, LAMBDA r : r.block_id = b))
  IN { f \in [mine -> UNION { of(b) : b \in mine }] : \A b \in mine : f[b] \in of(b) }

\* the orders in which the three SELECTs of load_page that feed the page may
\* return their rows: blocks ORDER BY position (every position is 0), urls
\* and page_references without ORDER BY
RowOrders(d, page_id) ==
  LET mine == BlockRowsOf(d, page_id)
  IN { [blocks |-> bo, urls |-> uo, refs |-> ro] :
         bo \in Orders(mine),
         uo \in OrdersByBlock(d.urls, mine),
         ro \in OrdersByBlock(d.page_references, mine) }

\* the block load_page builds from one block row
BlockFromRow(d, id, rows) ==
  LET row == d.blocks[id]
      fresh == IF row.parent_id # None
               THEN new_child(id, row.content, row.parent_id, row.indent_level)
               ELSE new_root(id, row.content)
      my_urls == rows.urls[id]
      my_refs == rows.refs[id]
  IN add_page_references(
       add_urls(fresh, [i \in 1..Len(my_urls) |-> my_urls[i].url]),
       [i \in 1..Len(my_refs) |->
          PageRef(my_refs[i].title, my_refs[i].is_tag # 0)])

\* no page id
NoPageId == ""

\* the page field of a result that carries no page: Ok(None) or Err
NoPage == [id |-> NoPageId, title |-> "", blocks |-> << >>, root_block_ids |-> <<>>]

RECURSIVE AddLoadedBlocks(_, _)
\* for block in blocks_to_add { page.add_block(block).map_err(..)?; }
AddLoadedBlocks(p, blocks) ==
  IF blocks = <<>> THEN [result |-> "Ok", some |-> TRUE, page |-> p]
  ELSE LET r == add_block(p, Head(blocks))
       IN IF r.result # "Ok"
          THEN [result |-> "InvalidOperation", some |-> FALSE, page |-> NoPage]
          ELSE AddLoadedBlocks(r.page, Tail(blocks))

\* SqlitePageRepository::load_page; rows gives the order in which the
\* queries return their rows. child_map is filled from block_children and
\* then not read, so it is not modelled. some tells Ok(Some(page)) from
\* Ok(None)
load_page(d, page_id, rows) ==
  IF page_id \notin DOMAIN d.pages
  THEN [result |-> "Ok", some |-> FALSE, page |-> NoPage]
  ELSE AddLoadedBlocks(
         NewPageValue(page_id, d.pages[page_id]),
         sort_by_indent([i \in 1..Len(rows.blocks) |->
                           BlockFromRow(d, rows.blocks[i], rows)]))

\* PageRepository::find_by_id for SqlitePageRepository
find_by_id(d, page_id, rows) == load_page(d, page_id, rows)

\* PageRepository::delete for SqlitePageRepository: DELETE FROM pages WHERE
\* id = ?1, with blocks.page_id REFERENCES pages(id) ON DELETE CASCADE
delete(d, page_id) ==
  IF page_id \notin DOMAIN d.pages THEN [result |-> FALSE, db |-> d]
  ELSE [result |-> TRUE,
        db |-> [DeleteBlockRows(d, BlockRowsOf(d, page_id))
                  EXCEPT !.pages = MapRemove(@, page_id)]]

\* SELECT id FROM pages WHERE title = ?1, read with query_row: the ids of
\* the rows the query may return first
TitleMatches(d, title) == { id \in DOMAIN d.pages : d.pages[id] = title }

\* PageRepository::find_by_title for SqlitePageRepository; first is the id
\* of the row query_row returns, NoPageId when the query returns no row
find_by_title(d, title, first, rows) ==
  IF first = NoPageId
  THEN [result |-> "Ok", some |-> FALSE, page |-> NoPage]
  ELSE find_by_id(d, first, rows)

RECURSIVE find_all_over(_, _, _)
\* for id_str in page_ids { if let Some(page) = self.find_by_id(&page_id)? { pages.push(page) } }
find_all_over(d, page_ids, rows) ==
  IF page_ids = <<>> THEN [result |-> "Ok", pages |-> <<>>]
  ELSE LET r == find_by_id(d, Head(page_ids), rows[Head(page_ids)])
           rest == find_all_over(d, Tail(page_ids), rows)
       IN IF r.result # "Ok" \/ rest.result # "Ok"
          THEN [result |-> "InvalidOperation", pages |-> <<>>]
          ELSE [result |-> "Ok",
                pages |-> (IF r.some THEN <<r.page>> ELSE <<>>) \o rest.pages]

\* PageRepository::find_all for SqlitePageRepository; page_ids is the order
\* in which SELECT id FROM pages returns the ids, rows the row orders of the
\* loads
find_all(d, page_ids, rows) == find_all_over(d, page_ids, rows)

(* ------------------------ in-memory repository ------------------------ *)

\* InMemoryPageRepository::new
EmptyMem == << >>

\* InMemoryPageRepository::save
mem_save(m, p) == [result |-> "Ok", mem |-> MapInsert(m, p.id, p)]

\* InMemoryPageRepository::find_by_id
mem_find_by_id(m, page_id) ==
  IF page_id \in DOMAIN m
  THEN [result |-> "Ok", some |-> TRUE, page |-> m[page_id]]
  ELSE [result |-> "Ok", some |-> FALSE, page |-> NoPage]

\* the pages that self.pages.values().find(|p| p.title() == title) may meet
\* first
MemTitleMatches(m, title) == { id \in DOMAIN m : m[id].title = title }

\* InMemoryPageRepository::find_by_title; first is the id of the page the
\* iteration meets first, NoPageId when no page has the title
mem_find_by_title(m, title, first) ==
  IF first = NoPageId
  THEN [result |-> "Ok", some |-> FALSE, page |-> NoPage]
  ELSE [result |-> "Ok", some |-> TRUE, page |-> m[first]]

\* InMemoryPageRepository::find_all; page_ids is the order in which the
\* HashMap yields its values
mem_find_all(m, page_ids) ==
  [result |-> "Ok", pages |-> [i \in 1..Len(page_ids) |-> m[page_ids[i]]]]

\* InMemoryPageRepository::delete
mem_delete(m, page_id) ==
  [result |-> page_id \in DOMAIN m, mem |-> MapRemove(m, page_id)]

(* ----------------------------- SyncService ---------------------------- *)

\* the .md files discover_logseq_files may find under pages/ and journals/
Paths == {"pages/a.md", "pages/b.md", "journals/a.md"}

\* file_path.file_stem(): the title of the page of a file
file_stem(file_path) == IF file_path = "pages/b.md" THEN "b" ELSE "a"

\* file_meta.modified()
ModTimes == {1, 2}

\* what a file holds: text that parse_file turns into a page, or text it
\* refuses (not UTF-8, or an indented block with no parent)
Contents == {"good", "bad"}

\* the ids parse_file may draw for a page (page-<uuid>)
SyncPageIds == {"u1", "u2", "u3", "u4", "u5", "u6"}

\* an id no stored page has
FreshPageId(repo) == CHOOSE id \in SyncPageIds : id \notin DOMAIN repo

\* SyncService::new: no file is registered; the directory starts empty
InitSync == [files |-> << >>, registry |-> << >>]

\* the SyncSummary sync_once starts from
EmptySummary ==
  [files_created |-> 0, files_updated |-> 0, files_deleted |-> 0,
   files_unchanged |-> 0, errors |-> <<>>]

\* LogseqMarkdownParser::parse_file: a page with a fresh id and the file's
\* stem as title; the blocks play no part in the sync
parse_file(files, file_path, page_id) ==
  IF files[file_path].content = "good"
  THEN [ok |-> TRUE, page |-> NewPageValue(page_id, file_stem(file_path))]
  ELSE [ok |-> FALSE, page |-> NoPage]

\* sync_file that also syncs a file whose modification time equals the
\* registered one
sync_file_resync_equal(st, files, file_path, save_fails) ==
  LET modified == files[file_path].modified
      title == file_stem(file_path)
      needs_sync == IF file_path \in DOMAIN st.registry
                    THEN modified >= st.registry[file_path].last_modified
                    ELSE TRUE
      existing_page == MemTitleMatches(st.repo, title) # {}
      parsed == parse_file(files, file_path, FreshPageId(st.repo))
      saved == mem_save(st.repo, parsed.page)
  IN IF ~needs_sync
     THEN [ok |-> TRUE, error |-> "",
           st |-> [st EXCEPT !.summary.files_unchanged = @ + 1]]
     ELSE IF ~parsed.ok
     THEN [ok |-> FALSE, error |-> "Parse error", st |-> st]
     ELSE IF file_path \in save_fails
     THEN [ok |-> FALSE, error |-> "Repository error", st |-> st]
     ELSE [ok |-> TRUE, error |-> "",
           st |-> [st EXCEPT
                     !.repo = saved.mem,
                     !.registry = MapInsert(@, file_path,
                                    [title |-> title, last_modified |-> modified]),
                     !.summary.files_updated = IF existing_page THEN @ + 1 ELSE @,
                     !.summary.files_created = IF existing_page THEN @ ELSE @ + 1,
                     !.events = Append(@,
                        [kind |-> IF existing_page THEN "FileUpdated" ELSE "FileCreated",
                         file_path |-> file_path])]]

\* sync_file that never looks at the modification time of a registered file
sync_file_ignores_mtime(st, files, file_path, save_fails) ==
  LET modified == files[file_path].modified
      title == file_stem(file_path)
      needs_sync == IF file_path \in DOMAIN st.registry
                    THEN FALSE
                    ELSE TRUE
      existing_page == MemTitleMatches(st.repo, title) # {}
      parsed == parse_file(files, file_path, FreshPageId(st.repo))
      saved == mem_save(st.repo, parsed.page)
  IN IF ~needs_sync
     THEN [ok |-> TRUE, error |-> "",
           st |-> [st EXCEPT !.summary.files_unchanged = @ + 1]]
     ELSE IF ~parsed.ok
     THEN [ok |-> FALSE, error |-> "Parse error", st |-> st]
     ELSE IF file_path \in save_fails
     THEN [ok |-> FALSE, error |-> "Repository error", st |-> st]
     ELSE [ok |-> TRUE, error |-> "",
           st |-> [st EXCEPT
                     !.repo = saved.mem,
                     !.registry = MapInsert(@, file_path,
                                    [title |-> title, last_modified |-> modified]),
                     !.summary.files_updated = IF existing_page THEN @ + 1 ELSE @,
                     !.summary.files_created = IF existing_page THEN @ ELSE @ + 1,
                     !.events = Append(@,
                        [kind |-> IF existing_page THEN "FileUpdated" ELSE "FileCreated",
                         file_path |-> file_path])]]

\* sync_file that reports every saved file as created
sync_file_always_created(st, files, file_path, save_fails) ==
  LET modified == files[file_path].modified
      title == file_stem(file_path)
      needs_sync == IF file_path \in DOMAIN st.registry
                    THEN modified > st.registry[file_path].last_modified
                    ELSE TRUE
      existing_page == FALSE
      parsed == parse_file(files, file_path, FreshPageId(st.repo))
      saved == mem_save(st.repo, parsed.page)
  IN IF ~needs_sync
     THEN [ok |-> TRUE, error |-> "",
           st |-> [st EXCEPT !.summary.files_unchanged = @ + 1]]
     ELSE IF ~parsed.ok
     THEN [ok |-> FALSE, error |-> "Parse error", st |-> st]
     ELSE IF file_path \in save_fails
     THEN [ok |-> FALSE, error |-> "Repository error", st |-> st]
     ELSE [ok |-> TRUE, error |-> "",
           st |-> [st EXCEPT
                     !.repo = saved.mem,
                     !.registry = MapInsert(@, file_path,
                                    [title |-> title, last_modified |-> modified]),
                     !.summary.files_updated = IF existing_page THEN @ + 1 ELSE @,
                     !.summary.files_created = IF existing_page THEN @ ELSE @ + 1,
                     !.events = Append(@,
                        [kind |-> IF existing_page THEN "FileUpdated" ELSE "FileCreated",
                         file_path |-> file_path])]]

\* SyncService::sync_file; st carries the registry, the repository, the
\* summary and the events; save_fails are the paths for which
\* repo.find_by_title or repo.save
\* returns an error
sync_file(st, files, file_path, save_fails) ==
  LET modified == files[file_path].modified
      title == file_stem(file_path)
      needs_sync == IF file_path \in DOMAIN st.registry
                    THEN modified > st.registry[file_path].last_modified
                    ELSE TRUE
      existing_page == MemTitleMatches(st.repo, title) # {}
      parsed == parse_file(files, file_path, FreshPageId(st.repo))
      saved == mem_save(st.repo, parsed.page)
  IN IF ~needs_sync
     THEN [ok |-> TRUE, error |-> "",
           st |-> [st EXCEPT !.summary.files_unchanged = @ + 1]]
     ELSE IF ~parsed.ok
     THEN [ok |-> FALSE, error |-> "Parse error", st |-> st]
     ELSE IF file_path \in save_fails
     THEN [ok |-> FALSE, error |-> "Repository error", st |-> st]
     ELSE [ok |-> TRUE, error |-> "",
           st |-> [st EXCEPT
                     !.repo = saved.mem,
                     !.registry = MapInsert(@, file_path,
                                    [title |-> title, last_modified |-> modified]),
                     !.summary.files_updated = IF existing_page THEN @ + 1 ELSE @,
                     !.summary.files_created = IF existing_page THEN @ ELSE @ + 1,
                     !.events = Append(@,
                        [kind |-> IF existing_page THEN "FileUpdated" ELSE "FileCreated",
                         file_path |-> file_path])]]

RECURSIVE sync_files_over(_, _, _, _)
\* the loop `for file_path in current_files` of sync_once; log keeps, file
\* by file, what sync_file met and left
sync_files_over(st, files, current_files, save_fails) ==
  IF current_files = <<>> THEN st
  ELSE LET file_path == Head(current_files)
           r == sync_file(st, files, file_path, save_fails)
           after == IF r.ok THEN r.st
                    ELSE [st EXCEPT
                            !.summary.errors = Append(@, [file_path |-> file_path,
                                                          error |-> r.error]),
                            !.events = Append(@, [kind |-> "Error",
                                                  file_path |-> file_path])]
           entry == [file_path |-> file_path,
                     ok |-> r.ok,
                     registered |-> file_path \in DOMAIN st.registry,
                     newer |-> file_path \in DOMAIN st.registry
                               /\ files[file_path].modified
                                    > st.registry[file_path].last_modified,
                     held_title |-> MemTitleMatches(st.repo, file_stem(file_path)) # {},
                     before |-> st,
                     after |-> after]
       IN sync_files_over([after EXCEPT !.log = Append(@, entry)],
                          files, Tail(current_files), save_fails)

RECURSIVE deletions_over(_, _, _, _)
\* the loop `for file_path in to_delete` of handle_deletions; lookup_fails
\* are the paths for which repo.find_by_title or repo.delete returns an error
deletions_over(st, to_delete, lookup_fails, deleted_count) ==
  IF to_delete = <<>> THEN [st |-> st, deleted_count |-> deleted_count]
  ELSE LET file_path == Head(to_delete)
           metadata == st.registry[file_path]
           removed == [st EXCEPT !.registry = MapRemove(@, file_path)]
           matches == MemTitleMatches(st.repo, metadata.title)
           found == file_path \notin lookup_fails /\ matches # {}
           page_id == CHOOSE id \in matches : TRUE
       IN IF found
          THEN deletions_over(
                 [removed EXCEPT
                    !.repo = mem_delete(st.repo, page_id).mem,
                    !.events = Append(@, [kind |-> "FileDeleted",
                                          file_path |-> file_path])],
                 Tail(to_delete), lookup_fails, deleted_count + 1)
          ELSE deletions_over(removed, Tail(to_delete), lookup_fails, deleted_count)

\* SyncService::handle_deletions; to_delete is the order in which
\* registry.keys() yields the paths that are not among the current files
handle_deletions(st, to_delete, lookup_fails) ==
  deletions_over(st, to_delete, lookup_fails, 0)

\* sync_once that handles the deletions before it syncs the files
sync_once_deletions_first(registry, repo, files, current_files, to_delete, save_fails, lookup_fails) ==
  LET started == [registry |-> registry, repo |-> repo, summary |-> EmptySummary,
                  events |-> <<[kind |-> "SyncStarted", file_path |-> ""]>>,
                  log |-> <<>>]
      deleted == handle_deletions(started, to_delete, lookup_fails)
      synced == sync_files_over(deleted.st, files, current_files, save_fails)
      summary == [synced.summary EXCEPT !.files_deleted = deleted.deleted_count]
  IN [ok |-> TRUE,
      summary |-> summary,
      events |-> Append(synced.events, [kind |-> "SyncCompleted", file_path |-> ""]),
      completed |-> [files_created |-> summary.files_created,
                     files_updated |-> summary.files_updated,
                     files_deleted |-> summary.files_deleted],
      log |-> synced.log,
      registry |-> synced.registry,
      repo |-> synced.repo]

\* sync_once that leaves the deletions out when a file failed
sync_once_errors_skip_deletions(registry, repo, files, current_files, to_delete, save_fails, lookup_fails) ==
  LET started == [registry |-> registry, repo |-> repo, summary |-> EmptySummary,
                  events |-> <<[kind |-> "SyncStarted", file_path |-> ""]>>,
                  log |-> <<>>]
      synced == sync_files_over(started, files, current_files, save_fails)
      deleted == IF synced.summary.errors = <<>>
                 THEN handle_deletions(synced, to_delete, lookup_fails)
                 ELSE [st |-> synced, deleted_count |-> 0]
      summary == [synced.summary EXCEPT !.files_deleted = deleted.deleted_count]
  IN [ok |-> TRUE,
      summary |-> summary,
      events |-> Append(deleted.st.events, [kind |-> "SyncCompleted", file_path |-> ""]),
      completed |-> [files_created |-> summary.files_created,
                     files_updated |-> summary.files_updated,
                     files_deleted |-> summary.files_deleted],
      log |-> synced.log,
      registry |-> deleted.st.registry,
      repo |-> deleted.st.repo]

\* SyncService::sync_once with a callback; current_files is the order in
\* which discover_logseq_files returns the files
sync_once(registry, repo, files, current_files, to_delete, save_fails, lookup_fails) ==
  LET started == [registry |-> registry, repo |-> repo, summary |-> EmptySummary,
                  events |-> <<[kind |-> "SyncStarted", file_path |-> ""]>>,
                  log |-> <<>>]
      synced == sync_files_over(started, files, current_files, save_fails)
      deleted == handle_deletions(synced, to_delete, lookup_fails)
      summary == [synced.summary EXCEPT !.files_deleted = deleted.deleted_count]
  IN [ok |-> TRUE,
      summary |-> summary,
      events |-> Append(deleted.st.events, [kind |-> "SyncCompleted", file_path |-> ""]),
      completed |-> [files_created |-> summary.files_created,
                     files_updated |-> summary.files_updated,
                     files_deleted |-> summary.files_deleted],
      log |-> synced.log,
      registry |-> deleted.st.registry,
      repo |-> deleted.st.repo]

(* ---------------------------- ImportService ---------------------------- *)

\* no import_directory call is running
InitImport ==
  [pc |-> "idle", files |-> << >>, max_concurrent_files |-> 0, save_fails |-> {},
   tasks |-> << >>, permits |-> 0, channel |-> <<>>, files_processed |-> 0,
   errors |-> <<>>, pages_imported |-> 0, events |-> <<>>]

\* import_directory up to the receive loop: the files are discovered,
\* Started is emitted, one task is spawned per file and the original sender
\* is dropped; save_fails are the paths whose page the repository refuses
import_start(files, max_concurrent_files, save_fails) ==
  [pc |-> "collecting",
   files |-> files,
   max_concurrent_files |-> max_concurrent_files,
   save_fails |-> save_fails,
   tasks |-> [file_path \in DOMAIN files |-> "spawned"],
   permits |-> max_concurrent_files,
   channel |-> <<>>,
   files_processed |-> 0,
   errors |-> <<>>,
   pages_imported |-> 0,
   events |-> <<[kind |-> "Started", file_path |-> "",
                 count |-> Cardinality(DOMAIN files)]>>]

\* semaphore.acquire() returns only while a permit is left
can_acquire_unbounded(st) == TRUE

can_acquire(st) == st.permits > 0

\* a task: let _permit = semaphore.acquire().await
acquire(st, file_path) ==
  [st EXCEPT !.tasks[file_path] = "parsing", !.permits = @ - 1]

\* a task: let result = parse_file(&file_path).await
parse(st, file_path) == [st EXCEPT !.tasks[file_path] = "sending"]

\* a task: tx.send((file_path, result)).await
send(st, file_path) ==
  [st EXCEPT !.tasks[file_path] = "sent",
             !.channel = Append(@, [file_path |-> file_path,
                                    ok |-> st.files[file_path] = "good"])]

\* a task ends: _permit and its sender are dropped
release(st, file_path) ==
  [st EXCEPT !.tasks[file_path] = "done", !.permits = @ + 1]

\* a receive loop that emits FileProcessed before it increments the progress
collect_emit_first(st, repo) ==
  LET msg == Head(st.channel)
      saved == msg.ok /\ msg.file_path \notin st.save_fails
      page == NewPageValue(FreshPageId(repo), file_stem(msg.file_path))
  IN [repo |-> IF saved THEN mem_save(repo, page).mem ELSE repo,
      st |-> [st EXCEPT
                !.channel = Tail(@),
                !.pages_imported = IF saved THEN @ + 1 ELSE @,
                !.errors = IF saved THEN @
                           ELSE Append(@, [file_path |-> msg.file_path,
                                           error |-> IF msg.ok THEN "Repository error"
                                                     ELSE "Parse error"]),
                !.files_processed = @ + 1,
                !.events = Append(@, [kind |-> "FileProcessed",
                                      file_path |-> msg.file_path,
                                      count |-> st.files_processed])]]

\* a receive loop that records parse errors only
collect_save_error_lost(st, repo) ==
  LET msg == Head(st.channel)
      saved == msg.ok /\ msg.file_path \notin st.save_fails
      page == NewPageValue(FreshPageId(repo), file_stem(msg.file_path))
  IN [repo |-> IF saved THEN mem_save(repo, page).mem ELSE repo,
      st |-> [st EXCEPT
                !.channel = Tail(@),
                !.pages_imported = IF saved THEN @ + 1 ELSE @,
                !.errors = IF saved \/ msg.ok THEN @
                           ELSE Append(@, [file_path |-> msg.file_path,
                                           error |-> IF msg.ok THEN "Repository error"
                                                     ELSE "Parse error"]),
                !.files_processed = @ + 1,
                !.events = Append(@, [kind |-> "FileProcessed",
                                      file_path |-> msg.file_path,
                                      count |-> st.files_processed + 1])]]

\* one turn of `while let Some((file_path, result)) = rx.recv().await`
collect(st, repo) ==
  LET msg == Head(st.channel)
      saved == msg.ok /\ msg.file_path \notin st.save_fails
      page == NewPageValue(FreshPageId(repo), file_stem(msg.file_path))
  IN [repo |-> IF saved THEN mem_save(repo, page).mem ELSE repo,
      st |-> [st EXCEPT
                !.channel = Tail(@),
                !.pages_imported = IF saved THEN @ + 1 ELSE @,
                !.errors = IF saved THEN @
                           ELSE Append(@, [file_path |-> msg.file_path,
                                           error |-> IF msg.ok THEN "Repository error"
                                                     ELSE "Parse error"]),
                !.files_processed = @ + 1,
                !.events = Append(@, [kind |-> "FileProcessed",
                                      file_path |-> msg.file_path,
                                      count |-> st.files_processed + 1])]]

\* rx.recv() returns None: every sender is dropped and the channel is empty
channel_closed(st) ==
  /\ st.channel = <<>>
  /\ \A file_path \in DOMAIN st.tasks : st.tasks[file_path] = "done"

\* import_directory after the receive loop: Completed or Failed, then the summary
finish(st) ==
  [st EXCEPT
     !.pc = "done",
     !.events = Append(@, IF st.errors = <<>>
                          THEN [kind |-> "Completed", file_path |-> "",
                                count |-> st.pages_imported]
                          ELSE [kind |-> "Failed", file_path |-> "",
                                count |-> st.files_processed])]

(* ------------------------- LogseqMarkdownParser ------------------------ *)

\* the (indent_level, content) pairs parse_blocks may return, by their levels
LineLevels == 0..MaxLineIndent

\* parent_stack.retain(|level, _| *level <= indent_level), without the drop
retain_levels_keep_all(parent_stack, indent_level) == parent_stack

\* parent_stack.retain(|level, _| *level <= indent_level)
retain_levels(parent_stack, indent_level) ==
  [level \in { l \in DOMAIN parent_stack : l <= indent_level } |-> parent_stack[level]]

RECURSIVE build_hierarchy_over(_, _, _, _)
\* the loop `for (indent_level, content) in blocks` of build_hierarchy;
\* block_id stands for the fresh uuid of the next block
build_hierarchy_over(p, parent_stack, blocks, block_id) ==
  IF blocks = <<>> THEN [ok |-> TRUE, error |-> "", page |-> p]
  ELSE LET indent_level == Head(blocks).indent_level
           content == Head(blocks).content
       IN IF indent_level # 0 /\ (indent_level - 1) \notin DOMAIN parent_stack
          THEN [ok |-> FALSE, error |-> "InvalidMarkdown", page |-> NoPage]
          ELSE LET block == IF indent_level = 0
                            THEN new_root(block_id, content)
                            ELSE new_child(block_id, content,
                                           parent_stack[indent_level - 1], indent_level)
                   added == add_block(p, block)
               IN IF added.result # "Ok"
                  THEN [ok |-> FALSE, error |-> "Domain", page |-> NoPage]
                  ELSE build_hierarchy_over(
                         added.page,
                         retain_levels(MapInsert(parent_stack, indent_level, block_id),
                                       indent_level),
                         Tail(blocks), block_id + 1)

\* LogseqMarkdownParser::build_hierarchy
build_hierarchy(p, blocks) == build_hierarchy_over(p, << >>, blocks, 1)

\* LogseqMarkdownParser::parse_content after parse_blocks
parse_content(blocks, page_id, title) ==
  build_hierarchy(NewPageValue(page_id, title), blocks)

\* no content was parsed yet
InitParser == [blocks |-> <<>>, done |-> FALSE, ok |-> FALSE, error |-> "",
               page |-> NoPage]

(* --------------------------- EmbeddingService -------------------------- *)

\* an EmbeddingServiceConfig with small chunks and batches
max_words_per_chunk == 6
overlap_words == 2
batch_size == 2

\* content.split_whitespace().count() for the contents the callers use
word_count(content) ==
  CASE content = "w1" -> 1
    [] content = "w5" -> 5
    [] OTHER -> 0

\* Page::get_hierarchy_path, for a block whose ancestor chain ends
get_hierarchy_path(p, block_id) ==
  LET anc == get_ancestors(p, block_id).ids
  IN [i \in 1..Len(anc) |-> anc[Len(anc) + 1 - i]]
       \o (IF block_id \in DOMAIN p.blocks THEN <<block_id>> ELSE <<>>)

RECURSIVE SumWords(_, _)
\* the words of the contents of some blocks
SumWords(p, ids) ==
  IF ids = <<>> THEN 0
  ELSE word_count(p.blocks[Head(ids)].content) + SumWords(p, Tail(ids))

\* TextPreprocessor::preprocess, as the number of words of its result:
\* "Page: <title>. Context: <parent> > <block>. <content>"
preprocess(p, block_id) ==
  LET hierarchy_path == get_hierarchy_path(p, block_id)
      parent_count == IF Len(hierarchy_path) < 2 THEN Len(hierarchy_path) ELSE 2
      relevant_parents == SubSeq(hierarchy_path,
                                 Len(hierarchy_path) - parent_count + 1,
                                 Len(hierarchy_path))
      title_words == IF p.title = "" THEN 0 ELSE 2
      context_words == IF parent_count = 0 THEN 0
                       ELSE 1 + SumWords(p, relevant_parents) + (parent_count - 1)
  IN title_words + context_words + word_count(p.blocks[block_id].content)

RECURSIVE chunks_from(_, _, _, _)
\* the while loop of chunk_text: the number of chunks from word `start` on
chunks_from(start, words, max_words, overlap) ==
  LET end == IF start + max_words < words THEN start + max_words ELSE words
  IN IF end >= words THEN 1
     ELSE 1 + chunks_from(end - overlap, words, max_words, overlap)

\* TextPreprocessor::chunk_text, as the number of chunks it returns
chunk_text(words, max_words, overlap) ==
  IF words <= max_words THEN 1 ELSE chunks_from(0, words, max_words, overlap)

\* the ChunkMetadata embed_page builds for one block; ChunkId::from_block
\* makes the chunk id from the block id and the chunk index
chunks_of_block(p, block_id) ==
  LET total_chunks == chunk_text(preprocess(p, block_id), max_words_per_chunk,
                                 overlap_words)
  IN [chunk_index \in 1..total_chunks |->
        [chunk_id |-> <<block_id, chunk_index - 1>>,
         block_id |-> block_id,
         page_id |-> p.id,
         preprocessed_content |-> <<block_id, chunk_index - 1>>]]

RECURSIVE all_chunk_data_over(_, _)
\* the loop `for block in page.all_blocks()` of embed_page
all_chunk_data_over(p, order) ==
  IF order = <<>> THEN [chunks |-> <<>>, blocks_processed |-> 0]
  ELSE LET rest == all_chunk_data_over(p, Tail(order))
       IN IF word_count(p.blocks[Head(order)].content) = 0
          THEN rest
          ELSE [chunks |-> chunks_of_block(p, Head(order)) \o rest.chunks,
                blocks_processed |-> rest.blocks_processed + 1]

\* the embedding service's embed_batch: one vector per text, in the order
\* of the texts; the vector of a text is named by the text
embed_batch(texts) == [i \in 1..Len(texts) |-> [of |-> texts[i]]]

\* a pairing that gives the i-th chunk the embedding of the chunk that is
\* i-th from the end
zip_reversed(chunk_batch, embeddings) ==
  LET n == IF Len(chunk_batch) < Len(embeddings) THEN Len(chunk_batch) ELSE Len(embeddings)
  IN [i \in 1..n |-> [chunk |-> chunk_batch[i], embedding |-> embeddings[n + 1 - i]]]

\* chunk_batch.drain(..).zip(embeddings.into_iter()).collect()
zip(chunk_batch, embeddings) ==
  LET n == IF Len(chunk_batch) < Len(embeddings) THEN Len(chunk_batch) ELSE Len(embeddings)
  IN [i \in 1..n |-> [chunk |-> chunk_batch[i], embedding |-> embeddings[i]]]

RECURSIVE upsert_points(_, _)
\* QdrantVectorStore::insert_chunks_batch: the points are upserted by chunk id
upsert_points(store, chunks) ==
  IF chunks = <<>> THEN store
  ELSE upsert_points(MapInsert(store, Head(chunks).chunk.chunk_id,
                               [block_id |-> Head(chunks).chunk.block_id,
                                page_id |-> Head(chunks).chunk.page_id,
                                vector |-> Head(chunks).embedding]),
                     Tail(chunks))

\* EmbeddingService::process_chunk_batch; fails says that embed_batch or
\* insert_chunks_batch returns an error
process_chunk_batch(chunk_batch, stats, store, fails) ==
  IF chunk_batch = <<>> THEN [ok |-> TRUE, chunk_batch |-> chunk_batch,
                              stats |-> stats, store |-> store, upserted |-> 0,
                              batches |-> <<>>]
  ELSE IF fails THEN [ok |-> FALSE, chunk_batch |-> chunk_batch,
                      stats |-> stats, store |-> store, upserted |-> 0,
                      batches |-> <<>>]
  ELSE LET texts == [i \in 1..Len(chunk_batch) |-> chunk_batch[i].preprocessed_content]
           embeddings == embed_batch(texts)
           \* the drain leaves chunk_batch empty
           chunk_embedding_pairs == zip(chunk_batch, embeddings)
           drained == <<>>
       IN [ok |-> TRUE,
           chunk_batch |-> drained,
           stats |-> [stats EXCEPT !.chunks_stored = @ + Len(drained)],
           store |-> upsert_points(store, chunk_embedding_pairs),
           upserted |-> Len(chunk_embedding_pairs),
           batches |-> <<[texts |-> texts, pairs |-> chunk_embedding_pairs]>>]

RECURSIVE batches_over(_, _, _, _, _, _, _)
\* the loop `for chunk_metadata in all_chunk_data` of embed_page and the
\* call for the remaining chunks; fail_at is the number of the call of
\* process_chunk_batch that fails, 0 for none; batches lists what the calls
\* gave to the embedder and to the store
batches_over(chunks, chunk_batch, stats, store, fail_at, upserted, batches) ==
  IF chunks = <<>>
  THEN IF chunk_batch = <<>>
       THEN [ok |-> TRUE, stats |-> stats, store |-> store, upserted |-> upserted,
             batches |-> batches]
       ELSE LET r == process_chunk_batch(chunk_batch, stats, store, fail_at = 1)
            IN [ok |-> r.ok, stats |-> r.stats, store |-> r.store,
                upserted |-> upserted + r.upserted, batches |-> batches \o r.batches]
  ELSE LET pushed == Append(chunk_batch, Head(chunks))
       IN IF Len(pushed) >= batch_size
          THEN LET r == process_chunk_batch(pushed, stats, store, fail_at = 1)
               IN IF ~r.ok
                  THEN [ok |-> FALSE, stats |-> r.stats, store |-> r.store,
                        upserted |-> upserted, batches |-> batches]
                  ELSE batches_over(Tail(chunks), r.chunk_batch, r.stats, r.store,
                                    fail_at - 1, upserted + r.upserted,
                                    batches \o r.batches)
          ELSE batches_over(Tail(chunks), pushed, stats, store, fail_at, upserted, batches)

\* EmbeddingStats::default()
DefaultStats == [blocks_processed |-> 0, chunks_created |-> 0, chunks_stored |-> 0,
                 errors |-> 0]

\* EmbeddingService::embed_page; order is the order of page.all_blocks()
embed_page(p, order, store, fail_at) ==
  LET data == all_chunk_data_over(p, order)
      stats == [DefaultStats EXCEPT !.blocks_processed = data.blocks_processed,
                                    !.chunks_created = Len(data.chunks)]
      r == batches_over(data.chunks, <<>>, stats, store, fail_at, 0, <<>>)
  IN [ok |-> r.ok, stats |-> r.stats, store |-> r.store, upserted |-> r.upserted,
      batches |-> r.batches, created |-> data.chunks]

\* QdrantVectorStore::delete_page_chunks
delete_page_chunks(store, page_id) == store

\* QdrantVectorStore::delete_block_chunks
delete_block_chunks(store, block_id) == store

\* EmbeddingService::delete_page_embeddings
delete_page_embeddings(store, page_id) ==
  [ok |-> TRUE, store |-> delete_page_chunks(store, page_id)]

\* EmbeddingService::delete_block_embeddings
delete_block_embeddings(store, block_id) ==
  [ok |-> TRUE, store |-> delete_block_chunks(store, block_id)]

\* a new collection of the vector store; before is the store before the last
\* call, upserted, batches and created what the last call upserted, gave
\* batch by batch to the embedder and the store, and created as chunks
InitEmbed == [store |-> << >>, before |-> << >>, upserted |-> 0,
              batches |-> <<>>, created |-> <<>>]

(* ------------------------- SearchPagesAndBlocks ------------------------ *)

\* a string is the sequence of its characters; "h" stands for the scheme
\* "http://" that Url::new asks every URL to start with
to_lowercase(str) ==
  [i \in 1..Len(str) |-> IF str[i] = "A" THEN "a" ELSE str[i]]

\* str::starts_with
starts_with(str, query) ==
  Len(query) <= Len(str) /\ SubSeq(str, 1, Len(query)) = query

\* str::contains
contains(str, query) ==
  \E k \in 0..(Len(str) - Len(query)) : SubSeq(str, k + 1, k + Len(query)) = query

\* the scores, in tenths: 1.0, 0.9, 0.8, 0.7
ScoreExact == 10
ScorePrefix == 9
ScoreUrl == 8
ScoreContains == 7

\* SearchPagesAndBlocks::search_page, as the list of the zero or one result
search_page(p, query) ==
  LET title_lower == to_lowercase(p.title)
  IN IF contains(title_lower, query)
     THEN <<[kind |-> "Page", page_id |-> p.id, block_id |-> None, owner |-> None,
             matched |-> p.title,
             score |-> IF title_lower = query THEN ScoreExact
                       ELSE IF starts_with(title_lower, query) THEN ScorePrefix
                       ELSE ScoreContains]>>
     ELSE <<>>

RECURSIVE search_blocks(_, _, _)
\* SearchPagesAndBlocks::search_blocks; order is the order of page.all_blocks()
search_blocks(p, query, order) ==
  IF order = <<>> THEN <<>>
  ELSE LET block == p.blocks[Head(order)]
           content_lower == to_lowercase(block.content)
           rest == search_blocks(p, query, Tail(order))
       IN IF contains(content_lower, query)
          THEN <<[kind |-> "Block", page_id |-> p.id, block_id |-> block.id,
                  owner |-> block.id, matched |-> block.content,
                  score |-> IF content_lower = query THEN ScoreExact
                            ELSE IF starts_with(content_lower, query) THEN ScorePrefix
                            ELSE ScoreContains]>> \o rest
          ELSE rest

\* page.all_blocks().find(|b| b.urls().iter().any(|u| u == url))
find_containing(p, order, url) ==
  LET hits == SelectSeq(order, LAMBDA id : Contains(p.blocks[id].urls, url))
  IN IF hits = <<>> THEN None ELSE Head(hits)

RECURSIVE search_url_entries(_, _, _, _)
\* the loop `for (url, ancestor_refs, descendant_refs) in urls_with_context`;
\* owner is the block whose URL get_urls_with_context was at when it made the
\* entry, which the result does not carry
search_url_entries(p, query, order, entries) ==
  IF entries = <<>> THEN <<>>
  ELSE LET url == Head(entries).url
           url_str == to_lowercase(url)
           block_id == find_containing(p, order, url)
           rest == search_url_entries(p, query, order, Tail(entries))
       IN IF contains(url_str, query) /\ block_id # None
          THEN <<[kind |-> "Url", page_id |-> p.id, block_id |-> block_id,
                  owner |-> Head(entries).owner, matched |-> url,
                  score |-> IF url_str = query THEN ScoreExact ELSE ScoreUrl]>> \o rest
          ELSE rest

\* SearchPagesAndBlocks::search_urls
search_urls(p, query, order) ==
  search_url_entries(p, query, order, get_urls_with_context(p, order).entries)

RECURSIVE search_pages_over(_, _, _, _)
\* the loop `for page in pages` of traditional_search; orders gives, for
\* each page, the order of its all_blocks()
search_pages_over(pages, orders, query_lower, result_type) ==
  IF pages = <<>> THEN <<>>
  ELSE LET p == Head(pages)
           order == Head(orders)
       IN (IF result_type \in {"PagesOnly", "All"}
           THEN search_page(p, query_lower) ELSE <<>>)
          \o (IF result_type \in {"BlocksOnly", "All"}
              THEN search_blocks(p, query_lower, order) ELSE <<>>)
          \o (IF result_type \in {"UrlsOnly", "All"}
              THEN search_urls(p, query_lower, order) ELSE <<>>)
          \o search_pages_over(Tail(pages), Tail(orders), query_lower, result_type)

\* where a sort that moves equal elements puts the next element
sort_position_unstable(sorted, r) ==
  Cardinality({ i \in 1..Len(sorted) : sorted[i].score > r.score })

\* where results.sort_by(|a, b| b.score.partial_cmp(&a.score).unwrap()) puts
\* the next element: slice::sort_by is stable, so behind every element that
\* does not come after it
sort_position(sorted, r) ==
  Cardinality({ i \in 1..Len(sorted) : sorted[i].score >= r.score })

RECURSIVE sort_by_score(_, _)
\* results.sort_by(..): the elements of results put one by one into sorted
sort_by_score(sorted, results) ==
  IF results = <<>> THEN sorted
  ELSE LET r == Head(results)
           k == sort_position(sorted, r)
       IN sort_by_score(SubSeq(sorted, 1, k) \o <<r>> \o SubSeq(sorted, k + 1, Len(sorted)),
                        Tail(results))

\* SearchPagesAndBlocks::traditional_search; found is the place of a result
\* in the list before the sort
traditional_search(pages, orders, query, result_type) ==
  LET query_lower == to_lowercase(query)
      results == search_pages_over(pages, orders, query_lower, result_type)
      numbered == [i \in 1..Len(results) |->
                     [kind |-> results[i].kind, page_id |-> results[i].page_id,
                      block_id |-> results[i].block_id, owner |-> results[i].owner,
                      matched |-> results[i].matched,
                      score |-> results[i].score, found |-> i]]
  IN sort_by_score(<<>>, numbered)

RECURSIVE get_filtered_pages(_, _)
\* SearchPagesAndBlocks::get_filtered_pages on the in-memory repository
get_filtered_pages(repo, page_ids) ==
  IF page_ids = <<>> THEN <<>>
  ELSE LET r == mem_find_by_id(repo, Head(page_ids))
       IN (IF r.some THEN <<r.page>> ELSE <<>>)
            \o get_filtered_pages(repo, Tail(page_ids))

\* the candidate pages of SearchPagesAndBlocks::execute: page_filters is the
\* Option of the request, all_order the order in which find_all yields the
\* pages
candidate_pages(repo, page_filters, all_order) ==
  IF page_filters.some
  THEN get_filtered_pages(repo, page_filters.ids)
  ELSE mem_find_all(repo, all_order).pages

\* SearchPagesAndBlocks::execute
execute(repo, request, all_order, orders) ==
  LET pages == candidate_pages(repo, request.page_filters, all_order)
  IN [pages |-> pages,
      results |-> traditional_search(pages, orders, request.query, request.result_type)]

RECURSIVE links_over(_, _, _)
\* the loop `for (url, ancestor_refs, descendant_refs) in urls_with_refs` of
\* GetLinksForPage::execute; owner is the block whose URL
\* get_urls_with_context was at when it made the entry
links_over(p, order, entries) ==
  IF entries = <<>> THEN <<>>
  ELSE LET entry == Head(entries)
           block_id == find_containing(p, order, entry.url)
           rest == links_over(p, order, Tail(entries))
       IN IF block_id # None
          THEN <<[url |-> entry.url,
                  block_id |-> block_id,
                  block_content |-> p.blocks[block_id].content,
                  hierarchy_path |-> get_hierarchy_path(p, block_id),
                  related_page_refs |-> entry.ancestor_refs \o entry.descendant_refs,
                  owner |-> entry.owner]>> \o rest
          ELSE rest

\* GetLinksForPage::execute on the in-memory repository; order is the order
\* of the blocks of the page
get_links_for_page(repo, page_id, order) ==
  LET r == mem_find_by_id(repo, page_id)
  IN IF ~r.some THEN [result |-> "NotFound", links |-> <<>>]
     ELSE [result |-> "Ok",
           links |-> links_over(r.page, order,
                                get_urls_with_context(r.page, order).entries)]

\* no request was made yet; page_filters is the Option of the request, and
\* linked and links tell of the last GetLinksForPage
InitSearch == [pages |-> <<>>, query |-> <<>>, result_type |-> "All",
               page_filters |-> [some |-> FALSE, ids |-> <<>>],
               done |-> FALSE, results |-> <<>>,
               linked |-> "none", links |-> <<>>]

(* ------------------------ watcher, process_events --------------------- *)

\* the paths the debouncer may report: the .md files under pages/ and
\* journals/, a file that is no markdown and a markdown file elsewhere
WatchPaths == Paths \cup {"pages/n.txt", "assets/c.md"}

\* FileEvent::is_markdown
is_markdown(path) == path # "pages/n.txt"

\* FileEvent::is_in_logseq_dirs
is_in_logseq_dirs(path) == path # "assets/c.md"

\* LogseqFileWatcher::convert_event: every debounced event becomes Modified
convert_event(path, kind) ==
  LET event == [path |-> path, kind |-> "Modified"]
  IN IF is_markdown(event.path) /\ is_in_logseq_dirs(event.path)
     THEN <<event>> ELSE <<>>

RECURSIVE filter_map_convert(_)
\* events.into_iter().filter_map(convert_event).collect() of recv
filter_map_convert(events) ==
  IF events = <<>> THEN <<>>
  ELSE convert_event(Head(events).path, Head(events).kind)
         \o filter_map_convert(Tail(events))

\* LogseqMarkdownParser::parse_file of a path that may be gone: reading a
\* file that does not exist is an error
parse_watched_file(files, file_path, page_id) ==
  IF file_path \in DOMAIN files
  THEN parse_file(files, file_path, page_id)
  ELSE [ok |-> FALSE, page |-> NoPage]

\* SyncService::process_operation; st holds the repository, the events
\* given to the callback and the paths handed to parse_file
process_operation(st, files, operation, save_fails) ==
  IF operation.kind \in {"Create", "Update"}
  THEN LET parsed == parse_watched_file(files, operation.path, FreshPageId(st.repo))
           st1 == [st EXCEPT !.parsed = Append(@, operation.path)]
       IN IF ~parsed.ok
          THEN [ok |-> FALSE, op_type |-> "none", error |-> "Parse error", st |-> st1]
          ELSE IF operation.path \in save_fails
          THEN [ok |-> FALSE, op_type |-> "none", error |-> "Repository error", st |-> st1]
          ELSE [ok |-> TRUE, error |-> "",
                op_type |-> IF operation.kind = "Create" THEN "Created" ELSE "Modified",
                st |-> [st1 EXCEPT
                          !.repo = mem_save(@, parsed.page).mem,
                          !.events = Append(@,
                             [kind |-> IF operation.kind = "Create"
                                       THEN "FileCreated" ELSE "FileUpdated",
                              file_path |-> operation.path])]]
  ELSE [ok |-> TRUE, error |-> "", op_type |-> "Deleted",
        st |-> [st EXCEPT !.events = Append(@, [kind |-> "FileDeleted",
                                                file_path |-> operation.path])]]

RECURSIVE process_events_over(_, _, _, _)
\* the loop `for event in events` of process_events
process_events_over(st, files, events, save_fails) ==
  IF events = <<>> THEN st
  ELSE LET event == Head(events)
           operation == [kind |-> CASE event.kind = "Created" -> "Create"
                                    [] event.kind = "Modified" -> "Update"
                                    [] OTHER -> "Delete",
                         path |-> event.path]
           r == process_operation(st, files, operation, save_fails)
           counted == IF r.op_type = "Created"
                      THEN [r.st EXCEPT !.stats.files_created = @ + 1]
                      ELSE IF r.op_type = "Modified"
                      THEN [r.st EXCEPT !.stats.files_updated = @ + 1]
                      ELSE [r.st EXCEPT !.stats.files_deleted = @ + 1]
           next == IF r.ok THEN counted
                   ELSE [r.st EXCEPT !.events = Append(@, [kind |-> "Error",
                                                           file_path |-> event.path])]
       IN process_events_over(next, files, Tail(events), save_fails)

\* SyncService::process_events: the batch, then SyncCompleted with its counts
process_events(repo, files, events, save_fails) ==
  LET start == [repo |-> repo, events |-> <<>>, parsed |-> <<>>,
                stats |-> [files_created |-> 0, files_updated |-> 0, files_deleted |-> 0]]
      st == process_events_over(start, files, events, save_fails)
  IN [st EXCEPT !.events = Append(@, [kind |-> "SyncCompleted",
                                      files_created |-> st.stats.files_created,
                                      files_updated |-> st.stats.files_updated,
                                      files_deleted |-> st.stats.files_deleted])]

\* SyncService::new: the watcher watches a directory; nothing was reported.
\* batch, gone, events and parsed describe the last batch: its events, the
\* paths of it that were no file any more, what the callback got and what
\* parse_file was asked to read
InitWatch == [files |-> << >>, pending |-> <<>>, started |-> FALSE, changes |-> 0,
              batch |-> <<>>, gone |-> {}, events |-> <<>>, parsed |-> <<>>]

(* ------------------------- the repository mutex ----------------------- *)

\* what a function of the sync service does with the repository mutex, step
\* by step: "lock" is self.repository.lock().await, "drop" the end of the
\* guard, the other steps are calls of the repository and of the parser

\* sync_file that parses while it holds the guard of find_by_title
sync_file_steps_parse_locked ==
  <<"lock", "find_by_title", "parse_file", "drop", "lock", "save", "drop">>

\* sync_file, for a file that needs a sync
sync_file_steps ==
  <<"lock", "find_by_title", "drop", "parse_file", "lock", "save", "drop">>

\* handle_deletions, for one path of to_delete: the delete is made when
\* find_by_title returned a page, under the guard of find_by_title
handle_deletions_steps(found) ==
  IF found THEN <<"lock", "find_by_title", "delete", "drop">>
  ELSE <<"lock", "find_by_title", "drop">>

\* process_operation for Create and Update: the guard lives to the end of
\* the function
process_operation_steps == <<"parse_file", "lock", "save", "drop">>

\* a task that runs no function
IdleTask == [fn |-> "none", steps |-> <<>>]

\* the tasks that may use the service at the same time: one in sync_once,
\* one in start_watching
LockTasks == {"sync", "watch"}

\* the steps that return with `?` when they fail
Fallible == {"find_by_title", "parse_file", "save"}

\* Arc::new(Mutex::new(repository)): nobody holds the mutex. span is what
\* the holder did since it got the guard, spans what the guards that ended
\* had spanned
InitLock == [owner |-> "none", span |-> <<>>, spans |-> {},
             tasks |-> [t \in LockTasks |-> IdleTask]]

\* the end of a guard
drop_guard(l, t) ==
  [l EXCEPT !.owner = "none", !.span = <<>>,
            !.spans = @ \cup {[fn |-> l.tasks[t].fn, did |-> l.span]}]

\* the next step of the function that task t runs; ok tells whether a call
\* that may fail succeeds
lock_step(l, t, ok) ==
  LET step == Head(l.tasks[t].steps)
      rest == Tail(l.tasks[t].steps)
      done == IF rest = <<>> THEN IdleTask ELSE [l.tasks[t] EXCEPT !.steps = rest]
  IN IF step = "lock"
     THEN [l EXCEPT !.owner = t, !.span = <<>>, !.tasks[t] = done]
     ELSE IF step = "drop"
     THEN [drop_guard(l, t) EXCEPT !.tasks[t] = done]
     ELSE LET l1 == IF l.owner = t THEN [l EXCEPT !.span = Append(@, step)] ELSE l
          IN IF ok THEN [l1 EXCEPT !.tasks[t] = done]
             ELSE IF l1.owner = t THEN [drop_guard(l1, t) EXCEPT !.tasks[t] = IdleTask]
             ELSE [l1 EXCEPT !.tasks[t] = IdleTask]

(* ------------------------- chunk_text, step by step ------------------- *)

\* the text is its words 1..n; a chunk words[start..end] is the words
\* start + 1 .. end

\* a loop that starts the next chunk where the last one ended
next_start_no_overlap(end, overlap) == end

\* start = end - overlap_words
next_start(end, overlap) == end - overlap

\* chunk_text up to its loop: a text of at most max_words words is returned
\* whole
chunk_text_begin(c) ==
  IF c.n <= c.max_words
  THEN [c EXCEPT !.pc = "done", !.chunks = <<[start |-> 0, end |-> c.n]>>]
  ELSE [c EXCEPT !.pc = "loop", !.start = 0, !.chunks = <<>>]

\* one turn of `while start < words.len()`
chunk_text_loop(c) ==
  IF ~(c.start < c.n) THEN [c EXCEPT !.pc = "done"]
  ELSE LET end == IF c.start + c.max_words < c.n THEN c.start + c.max_words ELSE c.n
           pushed == [c EXCEPT !.chunks = Append(@, [start |-> c.start, end |-> end])]
       IN IF end >= c.n THEN [pushed EXCEPT !.pc = "done"]
          ELSE [pushed EXCEPT !.start = next_start(end, c.overlap_words)]

\* no call of chunk_text was made
InitChunker == [n |-> 0, max_words |-> 1, overlap_words |-> 0, pc |-> "idle",
                start |-> 0, chunks |-> <<>>]

(* ------------------- the two mutexes of the SyncService --------------- *)

\* sync_registry and repository are one tokio Mutex each; the tasks are two
\* callers of sync_once and the task of start_watching, and they work on
\* one file of the directory

\* the file the callers sync
ConcPath == "pages/a.md"

\* the callers of sync_once
SyncTasks == {"sync1", "sync2"}

\* the callers of the service
ConcTasks == SyncTasks \cup {"watch"}

\* a caller that is in no function of the service. saved is the version of
\* the file its sync_once call saved (0: none), seen the versions that calls
\* of the other caller of sync_once saved while they ran beside this call
IdleCaller == [pc |-> "idle", current_files |-> FALSE, modified |-> 0,
               version |-> 0, saved |-> 0, seen |-> {}]

\* SyncService::new: both mutexes are free and the registry is empty. held
\* is the guards of each task in the order it got them, saved the saves of
\* sync_file in their order (who saved what version of the file, for which
\* modification time read, after how many removals from the registry) and
\* removals the number of registry.remove calls
InitConc ==
  [owner |-> [registry |-> "none", repository |-> "none"],
   held |-> [t \in ConcTasks |-> <<>>],
   registry |-> << >>,
   file |-> [exists |-> FALSE, modified |-> 0],
   tasks |-> [t \in ConcTasks |-> IdleCaller],
   saved |-> <<>>,
   removals |-> 0]

\* the mutex a task is about to lock, by its place in the code
waits_for(pc) ==
  IF pc \in {"registry", "deletions"} THEN "registry"
  ELSE IF pc \in {"repository_find", "repository_save", "repository_delete"}
  THEN "repository"
  ELSE "none"

\* mutex.lock().await returns: the task has the guard
lock_mutex(c, t, mutex) ==
  [c EXCEPT !.owner[mutex] = t, !.held[t] = Append(@, mutex)]

\* the guards of a task end, by drop or at the end of the function
drop_guards(c, t, mutexes) ==
  [c EXCEPT !.owner = [m \in DOMAIN @ |-> IF m \in mutexes /\ @[m] = t THEN "none" ELSE @[m]],
            !.held[t] = SelectSeq(@, LAMBDA m : m \notin mutexes)]

\* the task goes on at pc
goto(c, t, pc) == [c EXCEPT !.tasks[t].pc = pc]

\* sync_file that ends its registry guard after the check, before it parses
sync_file_check_unlocked(c, t) ==
  LET modified == c.tasks[t].modified
      needs_sync == \/ ConcPath \notin DOMAIN c.registry
                    \/ modified > c.registry[ConcPath]
  IN IF needs_sync THEN goto(c, t, "repository_find")
     ELSE goto(c, t, "deletions")

\* sync_file from self.sync_registry.lock().await to the needs_sync test: an
\* unchanged file ends the function and the guard
sync_file_check(c, t) ==
  LET modified == c.tasks[t].modified
      needs_sync == \/ ConcPath \notin DOMAIN c.registry
                    \/ modified > c.registry[ConcPath]
  IN IF needs_sync THEN goto(lock_mutex(c, t, "registry"), t, "repository_find")
     ELSE goto(c, t, "deletions")

\* one step of sync_file in task t, from one await to the next; ok tells
\* whether a call that may fail succeeds. An error returns to sync_once,
\* which goes on with handle_deletions
sync_file_step(c, t, ok) ==
  LET pc == c.tasks[t].pc
      failed == goto(drop_guards(c, t, {"registry", "repository"}), t, "deletions")
  IN IF pc = "metadata"
     THEN IF ok /\ c.file.exists
          THEN [goto(c, t, "registry") EXCEPT !.tasks[t].modified = c.file.modified]
          ELSE failed
     ELSE IF pc = "registry" THEN sync_file_check(c, t)
     ELSE IF pc = "repository_find"
     THEN goto(lock_mutex(c, t, "repository"), t, "find_by_title")
     ELSE IF pc = "find_by_title"
     THEN IF ok THEN goto(drop_guards(c, t, {"repository"}), t, "parse_file")
          ELSE failed
     ELSE IF pc = "parse_file"
     THEN IF ok /\ c.file.exists
          THEN [goto(c, t, "repository_save") EXCEPT !.tasks[t].version = c.file.modified]
          ELSE failed
     ELSE IF pc = "repository_save"
     THEN goto(lock_mutex(c, t, "repository"), t, "save")
     ELSE IF ok
     THEN [goto(drop_guards(c, t, {"registry", "repository"}), t, "deletions")
             EXCEPT !.registry = MapInsert(c.registry, ConcPath, c.tasks[t].modified),
                    !.tasks = [u \in DOMAIN @ |->
                                 IF u = t THEN [@[u] EXCEPT !.saved = c.tasks[t].version]
                                 ELSE IF u \in SyncTasks /\ @[u].pc # "idle"
                                 THEN [@[u] EXCEPT !.seen = @ \cup {c.tasks[t].version}]
                                 ELSE @[u]],
                    !.saved = Append(@, [task |-> t,
                                         version |-> c.tasks[t].version,
                                         modified |-> c.tasks[t].modified,
                                         removals |-> c.removals])]
     ELSE failed

\* one step of handle_deletions in task t; when it returns, sync_once returns
handle_deletions_step(c, t) ==
  LET pc == c.tasks[t].pc
      to_delete == ConcPath \in DOMAIN c.registry /\ ~c.tasks[t].current_files
  IN IF pc = "deletions"
     THEN IF to_delete
          THEN [goto(lock_mutex(c, t, "registry"), t, "repository_delete")
                  EXCEPT !.registry = MapRemove(c.registry, ConcPath),
                         !.removals = @ + 1]
          ELSE goto(c, t, "idle")
     ELSE IF pc = "repository_delete"
     THEN goto(lock_mutex(c, t, "repository"), t, "delete")
     ELSE goto(drop_guards(c, t, {"registry", "repository"}), t, "idle")

\* one step of process_operation for Create and Update in the watching task
process_operation_step(c, t, ok) ==
  LET pc == c.tasks[t].pc
  IN IF pc = "parse_file"
     THEN IF ok /\ c.file.exists THEN goto(c, t, "repository_save")
          ELSE goto(c, t, "idle")
     ELSE IF pc = "repository_save"
     THEN goto(lock_mutex(c, t, "repository"), t, "save")
     ELSE goto(drop_guards(c, t, {"repository"}), t, "idle")

\* sync_once up to its loop: discover_logseq_files has listed the directory
sync_once_start(c, t) ==
  LET running == { u \in SyncTasks \ {t} : c.tasks[u].pc # "idle" }
  IN [c EXCEPT !.tasks[t] = [pc |-> IF c.file.exists THEN "metadata" ELSE "deletions",
                             current_files |-> c.file.exists,
                             modified |-> 0, version |-> 0, saved |-> 0,
                             seen |-> { c.tasks[u].saved : u \in running } \ {0}]]

(* ------------------------------- state -------------------------------- *)

VARIABLES
  page,     \* the Page aggregate the caller is building
  lastOp,   \* the operation that ran last and its target
  result,   \* what that operation returned
  ops,      \* number of mutating calls made so far
  db,       \* the tables of the relational repository
  mem,      \* the pages of the in-memory repository, by page id
  sync,     \* the directory and the sync registry of the SyncService
  imp,      \* the tasks, the channel and the events of an import_directory call
  parser,   \* the lines given to the markdown parser and what it returned
  embed,    \* the chunks of the vector store
  search,   \* the candidate pages and the request of a search, and its results
  watch,    \* the watched directory, the debounced events and the last batch
  lock,     \* the repository mutex of the sync service and the tasks that use it
  chunker,  \* the run of chunk_text: its arguments, its place in the loop, its chunks
  conc      \* the two mutexes of the SyncService, its callers and the file they sync

\* the state of the services that work beside the repositories
services == <<parser, embed, search, watch, lock, chunker, conc>>

vars == <<page, lastOp, result, ops, db, mem, sync, imp, parser, embed, search, watch, lock, chunker, conc>>

NoOp == [op |-> "none", id |-> None, page_id |-> NoPageId]

InitPage ==
  /\ page = NewPageValue("p1", "t1")
  /\ lastOp = NoOp
  /\ result = "none"
  /\ ops = 0
  /\ db = EmptyDb
  /\ mem = EmptyMem
  /\ sync = InitSync
  /\ imp = InitImport
  /\ parser = InitParser
  /\ embed = InitEmbed
  /\ search = InitSearch
  /\ watch = InitWatch
  /\ lock = InitLock
  /\ chunker = InitChunker
  /\ conc = InitConc

Init == InitPage

(* ------------------------- aggregate operations ----------------------- *)

\* a caller builds a block and calls page.add_block(block)
AddBlock(id, parent_id, indent_level, payload) ==
  LET r == add_block(page, MakeBlock(id, parent_id, indent_level, payload))
  IN /\ lastOp' = [op |-> "add_block", id |-> id, page_id |-> NoPageId]
     /\ ops' = ops + 1
     /\ page' = r.page
     /\ result' = r.result
     /\ UNCHANGED <<services, db, mem, sync, imp>>

\* page.remove_block(&id)
RemoveBlock(id) ==
  LET r == remove_block(page, id)
  IN /\ lastOp' = [op |-> "remove_block", id |-> id, page_id |-> NoPageId]
     /\ ops' = ops + 1
     /\ page' = r.page
     /\ result' = r.result
     /\ UNCHANGED <<services, db, mem, sync, imp>>

\* page.get_ancestors(&id)
GetAncestors(id) ==
  /\ lastOp' = [op |-> "get_ancestors", id |-> id, page_id |-> NoPageId]
  /\ result' = get_ancestors(page, id)
  /\ UNCHANGED <<services, page, ops, db, mem, sync, imp>>

\* page.get_urls_with_context()
GetUrlsWithContext ==
  \E order \in Orders(DOMAIN page.blocks) :
    /\ lastOp' = [op |-> "get_urls_with_context", id |-> None, page_id |-> NoPageId]
    /\ result' = get_urls_with_context(page, order)
    /\ UNCHANGED <<services, page, ops, db, mem, sync, imp>>

(* ------------------------ repository operations ---------------------- *)

\* the page ids and titles the callers draw from
PageIds == {"p1", "p2"}

Titles == {"t1", "t2"}

\* let mut page = Page::new(id, title)
NewPage(page_id, title) ==
  /\ lastOp' = [op |-> "new", id |-> None, page_id |-> page_id]
  /\ ops' = ops + 1
  /\ page' = NewPageValue(page_id, title)
  /\ result' = "Ok"
  /\ UNCHANGED <<services, db, mem, sync, imp>>

\* repo.save(page.clone())
Save ==
  \E order \in Orders(DOMAIN page.blocks) :
    LET r == save(db, page, order)
    IN /\ lastOp' = [op |-> "save", id |-> None, page_id |-> page.id]
       /\ ops' = ops + 1
       /\ db' = r.db
       /\ result' = r.result
       /\ UNCHANGED <<services, page, mem, sync, imp>>

\* repo.find_by_id(&page_id)
FindById(page_id) ==
  \E rows \in RowOrders(db, page_id) :
    /\ lastOp' = [op |-> "find_by_id", id |-> None, page_id |-> page_id]
    /\ result' = find_by_id(db, page_id, rows)
    /\ UNCHANGED <<services, page, ops, db, mem, sync, imp>>

\* repo.delete(&page_id)
Delete(page_id) ==
  LET r == delete(db, page_id)
  IN /\ lastOp' = [op |-> "delete", id |-> None, page_id |-> page_id]
     /\ ops' = ops + 1
     /\ db' = r.db
     /\ result' = r.result
     /\ UNCHANGED <<services, page, mem, sync, imp>>

\* the payload of the blocks where only the tree matters
PlainPayload == [content |-> "c1", urls |-> <<>>, page_references |-> <<>>]

\* callers that build and prune a tree and ask for ancestors
NextPage ==
  \/ \E id \in BlockIds, parent_id \in BlockIds \cup {None} :
       /\ ops < MaxOps
       /\ AddBlock(id, parent_id, IF parent_id = None THEN 0 ELSE 1, PlainPayload)
  \/ \E id \in BlockIds : ops < MaxOps /\ RemoveBlock(id)
  \/ \E id \in BlockIds : GetAncestors(id)

SpecPage == InitPage /\ [][NextPage]_vars

\* the payloads of the blocks that are saved: one with a tag, and one with
\* two URLs and a page reference of the same title as the tag
RepoPayloads ==
  { [content |-> "c1", urls |-> <<>>, page_references |-> <<PageRef("r1", TRUE)>>],
    [content |-> "c2", urls |-> <<"u1", "u2">>,
     page_references |-> <<PageRef("r1", FALSE)>>] }

\* callers that build pages and save, load and delete them
NextRepo ==
  \/ \E page_id \in PageIds, title \in Titles :
       ops < MaxRepoOps /\ NewPage(page_id, title)
  \/ \E id \in BlockIds, parent_id \in BlockIds \cup {None},
        indent_level \in IndentLevels, payload \in RepoPayloads :
       /\ ops < MaxRepoOps
       /\ parent_id = None => indent_level = 0
       /\ AddBlock(id, parent_id, indent_level, payload)
  \/ \E id \in BlockIds : ops < MaxRepoOps /\ RemoveBlock(id)
  \/ ops < MaxRepoOps /\ Save
  \/ \E page_id \in PageIds : FindById(page_id)
  \/ \E page_id \in PageIds : ops < MaxRepoOps /\ Delete(page_id)

SpecRepo == Init /\ [][NextRepo]_vars

\* callers that build a tree of blocks with URLs and references and ask for
\* the URLs with their context
NextCtx ==
  \/ \E id \in BlockIds, parent_id \in BlockIds \cup {None}, payload \in Payloads :
       ops < MaxCtxOps /\ AddBlock(id, parent_id, IF parent_id = None THEN 0 ELSE 1, payload)
  \/ \E id \in BlockIds : ops < MaxCtxOps /\ RemoveBlock(id)
  \/ GetUrlsWithContext

SpecCtx == InitPage /\ [][NextCtx]_vars

\* the block ids of the pages that are saved and deleted
DelBlockIds == {1, 2}

\* callers that build pages of a few blocks, save them and delete pages
NextDel ==
  \/ \E page_id \in PageIds : ops < MaxDelOps /\ NewPage(page_id, "t1")
  \/ \E id \in DelBlockIds, parent_id \in DelBlockIds \cup {None} :
       /\ ops < MaxDelOps
       /\ AddBlock(id, parent_id, IF parent_id = None THEN 0 ELSE 1, PlainPayload)
  \/ \E id \in DelBlockIds : ops < MaxDelOps /\ RemoveBlock(id)
  \/ ops < MaxDelOps /\ Save
  \/ \E page_id \in PageIds : ops < MaxDelOps /\ Delete(page_id)

SpecDel == Init /\ [][NextDel]_vars

(* ------------------------- directory and sync ------------------------- *)

\* a file is written under pages/ or journals/, new or over an older one
WriteFile(file_path, modified, content) ==
  /\ lastOp' = [op |-> "write_file", id |-> None, page_id |-> NoPageId]
  /\ ops' = ops + 1
  /\ sync' = [sync EXCEPT !.files = MapInsert(@, file_path,
                                       [modified |-> modified, content |-> content])]
  /\ sync' # sync
  /\ result' = "Ok"
  /\ UNCHANGED <<services, page, db, mem, imp>>

\* a file is removed from the directory
RemoveFile(file_path) ==
  /\ file_path \in DOMAIN sync.files
  /\ lastOp' = [op |-> "remove_file", id |-> None, page_id |-> NoPageId]
  /\ ops' = ops + 1
  /\ sync' = [sync EXCEPT !.files = MapRemove(@, file_path)]
  /\ result' = "Ok"
  /\ UNCHANGED <<services, page, db, mem, imp>>

\* service.sync_once(Some(callback)) on the repository mem
SyncOnce ==
  \E current_files \in Orders(DOMAIN sync.files),
     to_delete \in Orders(DOMAIN sync.registry \ DOMAIN sync.files),
     save_fails \in SUBSET DOMAIN sync.files,
     lookup_fails \in SUBSET (DOMAIN sync.registry \ DOMAIN sync.files) :
    LET r == sync_once(sync.registry, mem, sync.files, current_files, to_delete,
                       save_fails, lookup_fails)
    IN /\ Cardinality(SyncPageIds \ DOMAIN mem) >= Cardinality(DOMAIN sync.files)
       /\ lastOp' = [op |-> "sync_once", id |-> None, page_id |-> NoPageId]
       /\ ops' = ops + 1
       /\ sync' = [sync EXCEPT !.registry = r.registry]
       /\ mem' = r.repo
       /\ result' = [ok |-> r.ok, summary |-> r.summary, events |-> r.events,
                     completed |-> r.completed, log |-> r.log,
                     scan |-> DOMAIN sync.files,
                     registered |-> DOMAIN sync.registry,
                     repo_before |-> mem,
                     save_fails |-> save_fails,
                     lookup_fails |-> lookup_fails,
                     again |-> lastOp.op = "sync_once",
                     errors_before |-> IF lastOp.op = "sync_once"
                                       THEN Len(result.summary.errors) ELSE 0]
       /\ UNCHANGED <<services, page, db, imp>>

\* a directory whose files come, change and go between sync_once calls
NextSync ==
  \/ \E file_path \in Paths, modified \in ModTimes, content \in Contents :
       ops < MaxSyncOps /\ WriteFile(file_path, modified, content)
  \/ \E file_path \in Paths : ops < MaxSyncOps /\ RemoveFile(file_path)
  \/ ops < MaxSyncOps /\ SyncOnce

\* the directories a SyncService may be created on
StartDirs ==
  { << >>,
    ("pages/a.md" :> [modified |-> 1, content |-> "good"])
      @@ ("pages/b.md" :> [modified |-> 1, content |-> "bad"])
      @@ ("journals/a.md" :> [modified |-> 1, content |-> "good"]),
    ("pages/a.md" :> [modified |-> 1, content |-> "good"])
      @@ ("journals/a.md" :> [modified |-> 1, content |-> "good"]) }

\* SyncService::new on one of these directories, with an empty repository
InitSyncService ==
  /\ page = NewPageValue("p1", "t1")
  /\ lastOp = NoOp
  /\ result = "none"
  /\ ops = 0
  /\ db = EmptyDb
  /\ mem = EmptyMem
  /\ \E files \in StartDirs : sync = [InitSync EXCEPT !.files = files]
  /\ imp = InitImport
  /\ parser = InitParser
  /\ embed = InitEmbed
  /\ search = InitSearch
  /\ watch = InitWatch
  /\ lock = InitLock
  /\ chunker = InitChunker
  /\ conc = InitConc

SpecSync == InitSyncService /\ [][NextSync]_vars

(* ------------------------- import_directory --------------------------- *)

\* the directories import_directory may be called on: what each file holds
ImportDirs == UNION { [S -> Contents] : S \in SUBSET Paths }

\* service.import_directory(path, Some(callback)) is called
ImportDirectory(files, max_concurrent_files, save_fails) ==
  /\ imp.pc = "idle"
  /\ imp' = import_start(files, max_concurrent_files, save_fails)
  /\ lastOp' = [op |-> "import_directory", id |-> None, page_id |-> NoPageId]
  /\ result' = "pending"
  /\ UNCHANGED <<services, page, ops, db, mem, sync>>

TaskStep(next) ==
  /\ imp' = next
  /\ UNCHANGED <<services, page, lastOp, result, ops, db, mem, sync>>

TaskAcquire(file_path) ==
  /\ imp.pc = "collecting"
  /\ imp.tasks[file_path] = "spawned"
  /\ can_acquire(imp)
  /\ TaskStep(acquire(imp, file_path))

TaskParse(file_path) ==
  /\ imp.pc = "collecting"
  /\ imp.tasks[file_path] = "parsing"
  /\ TaskStep(parse(imp, file_path))

TaskSend(file_path) ==
  /\ imp.pc = "collecting"
  /\ imp.tasks[file_path] = "sending"
  /\ Len(imp.channel) < ChannelCapacity
  /\ TaskStep(send(imp, file_path))

TaskEnd(file_path) ==
  /\ imp.pc = "collecting"
  /\ imp.tasks[file_path] = "sent"
  /\ TaskStep(release(imp, file_path))

\* the receive loop takes the next result
Collect ==
  /\ imp.pc = "collecting"
  /\ imp.channel # <<>>
  /\ LET r == collect(imp, mem)
     IN /\ imp' = r.st
        /\ mem' = r.repo
  /\ UNCHANGED <<services, page, lastOp, result, ops, db, sync>>

\* the receive loop ends and import_directory returns Ok(ImportSummary)
Finish ==
  /\ imp.pc = "collecting"
  /\ channel_closed(imp)
  /\ imp' = finish(imp)
  /\ result' = [total_files |-> Cardinality(DOMAIN imp.files),
                pages_imported |-> imp.pages_imported,
                errors |-> imp.errors]
  /\ UNCHANGED <<services, page, lastOp, ops, db, mem, sync>>

NextImport ==
  \/ \E files \in ImportDirs, max_concurrent_files \in 0..MaxConcurrent :
       \E save_fails \in SUBSET DOMAIN files :
         ImportDirectory(files, max_concurrent_files, save_fails)
  \/ \E file_path \in DOMAIN imp.tasks : TaskAcquire(file_path)
  \/ \E file_path \in DOMAIN imp.tasks : TaskParse(file_path)
  \/ \E file_path \in DOMAIN imp.tasks : TaskSend(file_path)
  \/ \E file_path \in DOMAIN imp.tasks : TaskEnd(file_path)
  \/ Collect
  \/ Finish

SpecImport == Init /\ [][NextImport]_vars

\* the tokio runtime polls every spawned task that can go on, a waiting
\* semaphore.acquire() returns once a permit is free, and import_directory
\* itself goes on whenever rx.recv() has something to return; each of these
\* steps changes imp
ImportFairness ==
  /\ WF_imp(\E file_path \in DOMAIN imp.tasks : TaskAcquire(file_path))
  /\ WF_imp(\E file_path \in DOMAIN imp.tasks : TaskParse(file_path))
  /\ WF_imp(\E file_path \in DOMAIN imp.tasks : TaskSend(file_path))
  /\ WF_imp(\E file_path \in DOMAIN imp.tasks : TaskEnd(file_path))
  /\ WF_imp(Collect)
  /\ WF_imp(Finish)

SpecImportLive == Init /\ [][NextImport]_vars /\ ImportFairness

(* ----------------------------- parse_content -------------------------- *)

\* the blocks parse_blocks hands to build_hierarchy: up to MaxLines lines
ParsedLines ==
  UNION { [1..n -> [indent_level : LineLevels, content : {"c"}]] : n \in 0..MaxLines }

\* a parser that is about to get one of these files
InitParse ==
  /\ page = NewPageValue("p1", "t1")
  /\ lastOp = NoOp
  /\ result = "none"
  /\ ops = 0
  /\ db = EmptyDb
  /\ mem = EmptyMem
  /\ sync = InitSync
  /\ imp = InitImport
  /\ \E blocks \in ParsedLines : parser = [InitParser EXCEPT !.blocks = blocks]
  /\ embed = InitEmbed
  /\ search = InitSearch
  /\ watch = InitWatch
  /\ lock = InitLock
  /\ chunker = InitChunker
  /\ conc = InitConc

\* LogseqMarkdownParser::parse_content(content, page_id, title)
ParseContent ==
  /\ ~parser.done
  /\ LET r == parse_content(parser.blocks, "u1", "a")
     IN parser' = [parser EXCEPT !.done = TRUE, !.ok = r.ok, !.error = r.error,
                                 !.page = r.page]
  /\ UNCHANGED <<page, lastOp, result, ops, db, mem, sync, imp, embed, search, watch, lock, chunker, conc>>

NextParse == ParseContent

SpecParse == InitParse /\ [][NextParse]_vars

(* ------------------------------ embeddings ---------------------------- *)

\* the contents of the blocks that are embedded: blank, one word, five words
EmbedPayloads ==
  { [content |-> c, urls |-> <<>>, page_references |-> <<>>] : c \in {"", "w1", "w5"} }

EmbedBlockIds == {1, 2}

\* service.embed_page(&page, &repo)
EmbedPage ==
  \E order \in Orders(DOMAIN page.blocks), fail_at \in 0..2 :
    LET r == embed_page(page, order, embed.store, fail_at)
    IN /\ lastOp' = [op |-> "embed_page", id |-> None, page_id |-> page.id]
       /\ ops' = ops + 1
       /\ embed' = [store |-> r.store, before |-> embed.store, upserted |-> r.upserted,
                    batches |-> r.batches, created |-> r.created]
       /\ result' = [ok |-> r.ok, stats |-> r.stats]
       /\ UNCHANGED <<page, db, mem, sync, imp, parser, search, watch, lock, chunker, conc>>

\* service.delete_page_embeddings(&page_id)
DeletePageEmbeddings(page_id) ==
  LET r == delete_page_embeddings(embed.store, page_id)
  IN /\ lastOp' = [op |-> "delete_page_embeddings", id |-> None, page_id |-> page_id]
     /\ ops' = ops + 1
     /\ embed' = [store |-> r.store, before |-> embed.store, upserted |-> 0,
                  batches |-> <<>>, created |-> <<>>]
     /\ result' = "Ok"
     /\ UNCHANGED <<page, db, mem, sync, imp, parser, search, watch, lock, chunker, conc>>

\* service.delete_block_embeddings(&block_id)
DeleteBlockEmbeddings(block_id) ==
  LET r == delete_block_embeddings(embed.store, block_id)
  IN /\ lastOp' = [op |-> "delete_block_embeddings", id |-> block_id, page_id |-> NoPageId]
     /\ ops' = ops + 1
     /\ embed' = [store |-> r.store, before |-> embed.store, upserted |-> 0,
                  batches |-> <<>>, created |-> <<>>]
     /\ result' = "Ok"
     /\ UNCHANGED <<page, db, mem, sync, imp, parser, search, watch, lock, chunker, conc>>

\* callers that build pages of fresh blocks, embed them and delete embeddings
NextEmbed ==
  \/ \E page_id \in PageIds : ops < MaxEmbedOps /\ NewPage(page_id, "t1")
  \/ \E id \in EmbedBlockIds, parent_id \in EmbedBlockIds \cup {None},
        payload \in EmbedPayloads :
       /\ ops < MaxEmbedOps
       /\ id \notin DOMAIN page.blocks
       /\ AddBlock(id, parent_id, IF parent_id = None THEN 0 ELSE 1, payload)
  \/ ops < MaxEmbedOps /\ EmbedPage
  \/ \E page_id \in PageIds : ops < MaxEmbedOps /\ DeletePageEmbeddings(page_id)
  \/ \E block_id \in EmbedBlockIds : ops < MaxEmbedOps /\ DeleteBlockEmbeddings(block_id)

SpecEmbed == Init /\ [][NextEmbed]_vars

(* ------------------------------- search ------------------------------- *)

\* titles, contents, URLs and queries, character by character
SearchTitles == { <<"A">>, <<"a", "b">>, <<"b", "a">> }

SearchBlocks ==
  { [content |-> <<"a">>, urls |-> <<>>, page_references |-> <<>>],
    [content |-> <<"b", "A">>, urls |-> <<>>, page_references |-> <<>>],
    [content |-> <<"a">>, urls |-> << <<"h", "a">> >>, page_references |-> <<>>] }

SearchQueries == { <<"a">>, <<"A">>, <<"b">>, <<"h">>, <<"h", "a">> }

ResultTypes == {"All", "PagesOnly", "BlocksOnly", "UrlsOnly"}

RECURSIVE PageOfBlocks(_, _, _)
\* a page built by Page::new and one add_block per root block
PageOfBlocks(p, payloads, id) ==
  IF payloads = <<>> THEN p
  ELSE PageOfBlocks(add_block(p, MakeBlock(id, None, 0, Head(payloads))).page,
                    Tail(payloads), id + 1)

\* the pages a repository may hold under one id: up to two root blocks
SearchPagesOf(page_id) ==
  { PageOfBlocks(NewPageValue(page_id, title), payloads, 1) :
      title \in SearchTitles,
      payloads \in UNION { [1..n -> SearchBlocks] : n \in 0..2 } }

\* the candidate lists: what find_all or get_filtered_pages returns
Candidates ==
  { <<p>> : p \in SearchPagesOf("p1") }
    \cup { <<p, q>> : p \in SearchPagesOf("p1"), q \in SearchPagesOf("p2") }
    \cup { <<q, p>> : p \in SearchPagesOf("p1"), q \in SearchPagesOf("p2") }

\* a repository and a request that is about to be executed
InitSearchRequest ==
  /\ page = NewPageValue("p1", "t1")
  /\ lastOp = NoOp
  /\ result = "none"
  /\ ops = 0
  /\ db = EmptyDb
  /\ mem = EmptyMem
  /\ sync = InitSync
  /\ imp = InitImport
  /\ parser = InitParser
  /\ embed = InitEmbed
  /\ watch = InitWatch
  /\ lock = InitLock
  /\ chunker = InitChunker
  /\ conc = InitConc
  /\ \E pages \in Candidates, query \in SearchQueries, result_type \in ResultTypes :
       search = [InitSearch EXCEPT !.pages = pages, !.query = query,
                                   !.result_type = result_type]

\* use_case.execute(request)
Execute ==
  /\ ~search.done
  /\ \E orders \in [1..Len(search.pages) -> UNION { Orders({1, 2} \cap S) : S \in SUBSET {1, 2} }] :
       /\ \A i \in 1..Len(search.pages) :
            Range(orders[i]) = DOMAIN search.pages[i].blocks
       /\ search' = [search EXCEPT
                       !.done = TRUE,
                       !.results = traditional_search(search.pages, orders, search.query,
                                                      search.result_type)]
  /\ UNCHANGED <<page, lastOp, result, ops, db, mem, sync, imp, parser, embed, watch, lock, chunker, conc>>

NextSearch == Execute

SpecSearch == InitSearchRequest /\ [][NextSearch]_vars

(* ------------------------- save as a transaction ---------------------- *)

MaxSaveOps == 5

\* the blocks of the pages that are saved
SaveBlockIds == {1, 2}

\* a block with a URL and a page reference
SavePayload ==
  [content |-> "c1", urls |-> <<"u1">>, page_references |-> <<PageRef("r1", FALSE)>>]

\* repo.save(page.clone()) on a connection that may fail at any step
SaveAt ==
  \E order \in Orders(DOMAIN page.blocks), io_error \in SaveSteps \cup {"none"} :
    LET r == save_at(db, page, order, io_error)
    IN /\ lastOp' = [op |-> "save", id |-> None, page_id |-> page.id]
       /\ ops' = ops + 1
       /\ db' = r.db
       /\ result' = r.result
       /\ UNCHANGED <<services, page, mem, sync, imp>>

\* callers that build pages by Page::new and add_block and save them
NextSave ==
  \/ \E page_id \in PageIds, title \in Titles :
       ops < MaxSaveOps /\ NewPage(page_id, title)
  \/ \E id \in SaveBlockIds, parent_id \in SaveBlockIds \cup {None},
        indent_level \in IndentLevels :
       /\ ops < MaxSaveOps
       /\ parent_id = None => indent_level = 0
       /\ AddBlock(id, parent_id, indent_level, SavePayload)
  \/ ops < MaxSaveOps /\ SaveAt

SpecSave == Init /\ [][NextSave]_vars

(* ------------------------ tasks on the repository --------------------- *)

\* a task enters a function of the service
Enter(t, fn, steps) ==
  /\ lock.tasks[t] = IdleTask
  /\ lock' = [lock EXCEPT !.tasks[t] = [fn |-> fn, steps |-> steps]]
  /\ UNCHANGED <<page, lastOp, result, ops, db, mem, sync, imp, parser, embed, search, watch, chunker, conc>>

\* sync_once calls sync_file for a file that needs a sync
EnterSyncFile == Enter("sync", "sync_file", sync_file_steps)

\* handle_deletions comes to a path of to_delete
EnterHandleDeletions ==
  \E found \in BOOLEAN : Enter("sync", "handle_deletions", handle_deletions_steps(found))

\* process_events calls process_operation
EnterProcessOperation == Enter("watch", "process_operation", process_operation_steps)

\* self.repository.lock().await returns when nobody holds the mutex
Acquire(t) ==
  /\ lock.tasks[t].steps # <<>>
  /\ Head(lock.tasks[t].steps) = "lock"
  /\ lock.owner = "none"
  /\ lock' = lock_step(lock, t, TRUE)
  /\ UNCHANGED <<page, lastOp, result, ops, db, mem, sync, imp, parser, embed, search, watch, chunker, conc>>

\* drop(repo), or the end of the scope of the guard
Release(t) ==
  /\ lock.tasks[t].steps # <<>>
  /\ Head(lock.tasks[t].steps) = "drop"
  /\ lock' = lock_step(lock, t, TRUE)
  /\ UNCHANGED <<page, lastOp, result, ops, db, mem, sync, imp, parser, embed, search, watch, chunker, conc>>

\* a call of the repository or of the parser, which may fail
CallStep(t) ==
  /\ lock.tasks[t].steps # <<>>
  /\ Head(lock.tasks[t].steps) \notin {"lock", "drop"}
  /\ \E ok \in BOOLEAN :
       /\ ~ok => Head(lock.tasks[t].steps) \in Fallible
       /\ lock' = lock_step(lock, t, ok)
  /\ UNCHANGED <<page, lastOp, result, ops, db, mem, sync, imp, parser, embed, search, watch, chunker, conc>>

NextLock ==
  \/ EnterSyncFile
  \/ EnterHandleDeletions
  \/ EnterProcessOperation
  \/ \E t \in LockTasks : Acquire(t)
  \/ \E t \in LockTasks : Release(t)
  \/ \E t \in LockTasks : CallStep(t)

SpecLock == Init /\ [][NextLock]_vars

(* ------------------------------ chunk_text ---------------------------- *)

MaxWords == 9
MaxChunkWords == 4

\* a call chunk_text(text, max_words, overlap_words) by a caller that keeps
\* overlap_words below max_words
InitChunkText ==
  /\ page = NewPageValue("p1", "t1")
  /\ lastOp = NoOp
  /\ result = "none"
  /\ ops = 0
  /\ db = EmptyDb
  /\ mem = EmptyMem
  /\ sync = InitSync
  /\ imp = InitImport
  /\ parser = InitParser
  /\ embed = InitEmbed
  /\ search = InitSearch
  /\ watch = InitWatch
  /\ lock = InitLock
  /\ \E n \in 0..MaxWords, max_words \in 1..MaxChunkWords :
       \E overlap \in 0..(max_words - 1) :
         chunker = [InitChunker EXCEPT !.n = n, !.max_words = max_words,
                                       !.overlap_words = overlap, !.pc = "begin"]
  /\ conc = InitConc

\* the statements of chunk_text before its loop
ChunkTextBegin ==
  /\ chunker.pc = "begin"
  /\ chunker' = chunk_text_begin(chunker)
  /\ UNCHANGED <<page, lastOp, result, ops, db, mem, sync, imp, parser, embed, search, watch, lock, conc>>

\* one turn of the loop of chunk_text
ChunkTextLoop ==
  /\ chunker.pc = "loop"
  /\ chunker' = chunk_text_loop(chunker)
  /\ UNCHANGED <<page, lastOp, result, ops, db, mem, sync, imp, parser, embed, search, watch, lock, conc>>

NextChunkText == ChunkTextBegin \/ ChunkTextLoop

\* the call runs on: a loop that can take a turn takes it
SpecChunkText == InitChunkText /\ [][NextChunkText]_vars /\ WF_vars(NextChunkText)

(* ------------------- concurrent callers of the SyncService ------------ *)

ConcStep(next) ==
  /\ conc' = next
  /\ UNCHANGED <<page, lastOp, result, ops, db, mem, sync, imp, parser, embed, search, watch, lock, chunker>>

\* the file is written: created or modified, with a later modification time
ConcFileWritten ==
  /\ conc.file.modified + 1 \in ModTimes
  /\ ConcStep([conc EXCEPT !.file = [exists |-> TRUE, modified |-> @.modified + 1]])

\* the file is removed
ConcFileRemoved ==
  /\ conc.file.exists
  /\ ConcStep([conc EXCEPT !.file.exists = FALSE])

\* a caller calls service.sync_once(callback)
SyncOnceStart(t) ==
  /\ conc.tasks[t].pc = "idle"
  /\ ConcStep(sync_once_start(conc, t))

\* a step of a function is possible when the mutex it is about to lock is free
CanStep(t) ==
  LET mutex == waits_for(conc.tasks[t].pc)
  IN /\ conc.tasks[t].pc # "idle"
     /\ mutex # "none" => conc.owner[mutex] = "none"

\* the sync_file call of a sync_once goes on
SyncFileStep(t) ==
  /\ CanStep(t)
  /\ conc.tasks[t].pc \notin {"deletions", "repository_delete", "delete"}
  /\ \E ok \in BOOLEAN : ConcStep(sync_file_step(conc, t, ok))

\* the handle_deletions call of a sync_once goes on
HandleDeletionsStep(t) ==
  /\ CanStep(t)
  /\ conc.tasks[t].pc \in {"deletions", "repository_delete", "delete"}
  /\ ConcStep(handle_deletions_step(conc, t))

\* process_events hands a Create or Update of the file to process_operation
ProcessOperationStart ==
  /\ conc.tasks["watch"].pc = "idle"
  /\ ConcStep([conc EXCEPT !.tasks["watch"].pc = "parse_file"])

\* process_operation goes on
ProcessOperationStep ==
  /\ CanStep("watch")
  /\ \E ok \in BOOLEAN : ConcStep(process_operation_step(conc, "watch", ok))

NextConc ==
  \/ ConcFileWritten
  \/ ConcFileRemoved
  \/ \E t \in SyncTasks : SyncOnceStart(t)
  \/ \E t \in SyncTasks : SyncFileStep(t)
  \/ \E t \in SyncTasks : HandleDeletionsStep(t)
  \/ ProcessOperationStart
  \/ ProcessOperationStep

SpecConc == Init /\ [][NextConc]_vars

(* ------------------------- search with page filters ------------------- *)

\* the ids a request may list: two that may be stored and one that is not
FilterIds == {"p1", "p2", "p3"}

\* page_filters: None, or Some of a list of up to two ids
PageFilters ==
  {[some |-> FALSE, ids |-> <<>>]}
    \cup { [some |-> TRUE, ids |-> ids] :
             ids \in UNION { [1..n -> FilterIds] : n \in 0..2 } }

\* the repositories: each of p1 and p2 stored or not, as a page without blocks
FilterRepos ==
  UNION { [S -> { <<"a">>, <<"b">> }] : S \in SUBSET PageIds }

\* a repository and a request with page filters
InitExecute ==
  /\ page = NewPageValue("p1", "t1")
  /\ lastOp = NoOp
  /\ result = "none"
  /\ ops = 0
  /\ db = EmptyDb
  /\ sync = InitSync
  /\ imp = InitImport
  /\ parser = InitParser
  /\ embed = InitEmbed
  /\ watch = InitWatch
  /\ lock = InitLock
  /\ chunker = InitChunker
  /\ conc = InitConc
  /\ \E titles \in FilterRepos :
       mem = [id \in DOMAIN titles |-> NewPageValue(id, titles[id])]
  /\ \E page_filters \in PageFilters, query \in { <<"a">>, <<"b">> } :
       search = [InitSearch EXCEPT !.query = query, !.page_filters = page_filters]

\* use_case.execute(request) on the repository
ExecuteRequest ==
  /\ ~search.done
  /\ \E all_order \in Orders(DOMAIN mem) :
       LET r == execute(mem, search, all_order, [i \in 1..2 |-> <<>>])
       IN search' = [search EXCEPT !.done = TRUE, !.pages = r.pages,
                                   !.results = r.results]
  /\ UNCHANGED <<page, lastOp, result, ops, db, mem, sync, imp, parser, embed, watch, lock, chunker, conc>>

NextExecute == ExecuteRequest

SpecExecute == InitExecute /\ [][NextExecute]_vars

(* ------------------------------ URL results --------------------------- *)

\* a stored page with up to two root blocks, and a request for its URLs
InitLinks ==
  /\ page = NewPageValue("p1", "t1")
  /\ lastOp = NoOp
  /\ result = "none"
  /\ ops = 0
  /\ db = EmptyDb
  /\ sync = InitSync
  /\ imp = InitImport
  /\ parser = InitParser
  /\ embed = InitEmbed
  /\ watch = InitWatch
  /\ lock = InitLock
  /\ chunker = InitChunker
  /\ conc = InitConc
  /\ \E p \in SearchPagesOf("p1"), query \in SearchQueries :
       /\ mem = [id \in {"p1"} |-> p]
       /\ search = [InitSearch EXCEPT !.query = query, !.result_type = "UrlsOnly"]

\* use_case.execute(request) for the URLs of the pages of the repository
ExecuteUrls ==
  /\ ~search.done
  /\ \E order \in Orders(DOMAIN mem["p1"].blocks) :
       LET r == execute(mem, search, <<"p1">>, <<order>>)
       IN search' = [search EXCEPT !.done = TRUE, !.pages = r.pages,
                                   !.results = r.results]
  /\ UNCHANGED <<page, lastOp, result, ops, db, mem, sync, imp, parser, embed, watch, lock, chunker, conc>>

\* GetLinksForPage::new(&repo).execute(&page_id)
GetLinksForPage(page_id) ==
  /\ search.linked = "none"
  /\ \E order \in Orders(DOMAIN mem["p1"].blocks) :
       LET r == get_links_for_page(mem, page_id, order)
       IN search' = [search EXCEPT !.linked = r.result, !.links = r.links]
  /\ UNCHANGED <<page, lastOp, result, ops, db, mem, sync, imp, parser, embed, watch, lock, chunker, conc>>

NextLinks ==
  \/ ExecuteUrls
  \/ \E page_id \in PageIds : GetLinksForPage(page_id)

SpecLinks == InitLinks /\ [][NextLinks]_vars

(* ------------------------------ live watch ---------------------------- *)

MaxWatchOps == 4

\* the debouncer reports a path once in a batch
Report(pending, path) ==
  IF \E i \in 1..Len(pending) : pending[i].path = path THEN pending
  ELSE Append(pending, [path |-> path, kind |-> "Any"])

\* a file of the watched directory is created or rewritten
FileWritten(path, content) ==
  /\ watch.changes < MaxWatchOps
  /\ watch' = [watch EXCEPT
                 !.files = MapInsert(@, path, [content |-> content, modified |-> 1]),
                 !.pending = Report(@, path),
                 !.changes = @ + 1]
  /\ UNCHANGED <<page, lastOp, result, ops, db, mem, sync, imp, parser, embed, search, lock, chunker, conc>>

\* a file of the watched directory is deleted
FileRemoved(path) ==
  /\ watch.changes < MaxWatchOps
  /\ path \in DOMAIN watch.files
  /\ watch' = [watch EXCEPT
                 !.files = MapRemove(@, path),
                 !.pending = Report(@, path),
                 !.changes = @ + 1]
  /\ UNCHANGED <<page, lastOp, result, ops, db, mem, sync, imp, parser, embed, search, lock, chunker, conc>>

\* start_watching up to its loop (SyncStarted is no part of a batch)
StartWatching ==
  /\ ~watch.started
  /\ watch' = [watch EXCEPT !.started = TRUE]
  /\ UNCHANGED <<page, lastOp, result, ops, db, mem, sync, imp, parser, embed, search, lock, chunker, conc>>

\* one turn of the loop of start_watching: recv, and process_events when
\* recv kept an event
WatchBatch ==
  /\ watch.started
  /\ watch.pending # <<>>
  /\ LET file_events == filter_map_convert(watch.pending)
     IN IF file_events = <<>>
        THEN /\ watch' = [watch EXCEPT !.pending = <<>>, !.batch = <<>>, !.gone = {},
                                       !.events = <<>>, !.parsed = <<>>]
             /\ mem' = mem
        ELSE \E save_fails \in SUBSET { file_events[i].path : i \in 1..Len(file_events) } :
               LET st == process_events(mem, watch.files, file_events, save_fails)
               IN /\ watch' = [watch EXCEPT
                                  !.pending = <<>>, !.batch = file_events,
                                  !.gone = { file_events[i].path : i \in 1..Len(file_events) }
                                             \ DOMAIN watch.files,
                                  !.events = st.events, !.parsed = st.parsed]
                  /\ mem' = st.repo
  /\ UNCHANGED <<page, lastOp, result, ops, db, sync, imp, parser, embed, search, lock, chunker, conc>>

NextWatch ==
  \/ \E path \in WatchPaths, content \in Contents : FileWritten(path, content)
  \/ \E path \in WatchPaths : FileRemoved(path)
  \/ StartWatching
  \/ WatchBatch

SpecWatch == Init /\ [][NextWatch]_vars

(* --------------- both repositories driven by the same calls ----------- *)

\* the first row or value a lookup by title meets
FirstOf(matches) == IF matches = {} THEN {NoPageId} ELSE matches

\* the same page saved to both repositories
SaveBoth ==
  \E order \in Orders(DOMAIN page.blocks) :
    LET r == save(db, page, order)
        m == mem_save(mem, page)
    IN /\ lastOp' = [op |-> "save_both", id |-> None, page_id |-> page.id]
       /\ ops' = ops + 1
       /\ db' = r.db
       /\ mem' = m.mem
       /\ result' = [sql |-> r.result, mem |-> m.result]
       /\ UNCHANGED <<services, page, sync, imp>>

\* find_by_id on both repositories
FindByIdBoth(page_id) ==
  \E rows \in RowOrders(db, page_id) :
    /\ lastOp' = [op |-> "find_by_id_both", id |-> None, page_id |-> page_id]
    /\ result' = [sql |-> find_by_id(db, page_id, rows),
                  mem |-> mem_find_by_id(mem, page_id)]
    /\ UNCHANGED <<services, page, ops, db, mem, sync, imp>>

\* find_by_title on both repositories
FindByTitleBoth(title) ==
  \E first \in FirstOf(TitleMatches(db, title)),
     mem_first \in FirstOf(MemTitleMatches(mem, title)) :
    \E rows \in RowOrders(db, first) :
      /\ lastOp' = [op |-> "find_by_title_both", id |-> None, page_id |-> NoPageId]
      /\ result' = [title |-> title,
                    sql |-> find_by_title(db, title, first, rows),
                    mem |-> mem_find_by_title(mem, title, mem_first)]
      /\ UNCHANGED <<services, page, ops, db, mem, sync, imp>>

\* the row orders of the loads of find_all, page by page
AllRowOrders(d) ==
  { f \in [DOMAIN d.pages -> UNION { RowOrders(d, id) : id \in DOMAIN d.pages }] :
      \A id \in DOMAIN d.pages : f[id] \in RowOrders(d, id) }

\* find_all on both repositories
FindAllBoth ==
  \E page_ids \in Orders(DOMAIN db.pages), mem_ids \in Orders(DOMAIN mem) :
    \E rows \in AllRowOrders(db) :
      /\ lastOp' = [op |-> "find_all_both", id |-> None, page_id |-> NoPageId]
      /\ result' = [sql |-> find_all(db, page_ids, rows),
                    mem |-> mem_find_all(mem, mem_ids)]
      /\ UNCHANGED <<services, page, ops, db, mem, sync, imp>>

\* delete on both repositories
DeleteBoth(page_id) ==
  LET r == delete(db, page_id)
      m == mem_delete(mem, page_id)
  IN /\ lastOp' = [op |-> "delete_both", id |-> None, page_id |-> page_id]
     /\ ops' = ops + 1
     /\ db' = r.db
     /\ mem' = m.mem
     /\ result' = [sql |-> r.result, mem |-> m.result]
     /\ UNCHANGED <<services, page, sync, imp>>

\* the block ids of the pages given to both repositories
SubBlockIds == {1, 2}

\* callers that build pages block by block under ids the page does not hold
\* yet and give every call to both repositories
NextSub ==
  \/ \E page_id \in PageIds, title \in Titles :
       ops < MaxSubOps /\ NewPage(page_id, title)
  \/ \E id \in SubBlockIds, parent_id \in SubBlockIds \cup {None}, payload \in RepoPayloads :
       /\ ops < MaxSubOps
       /\ id \notin DOMAIN page.blocks
       /\ AddBlock(id, parent_id, IF parent_id = None THEN 0 ELSE 1, payload)
  \/ ops < MaxSubOps /\ SaveBoth
  \/ \E page_id \in PageIds : FindByIdBoth(page_id)
  \/ \E title \in Titles : FindByTitleBoth(title)
  \/ FindAllBoth
  \/ \E page_id \in PageIds : ops < MaxSubOps /\ DeleteBoth(page_id)

SpecSub == Init /\ [][NextSub]_vars

(* ------------------- the tree as the parent ids give it --------------- *)

RECURSIVE AncestorChain(_, _, _)
\* the parents met by following parent_id from b, nearest first, at most n
AncestorChain(blocks, b, n) ==
  IF n = 0 \/ b \notin DOMAIN blocks THEN <<>>
  ELSE LET parent_id == blocks[b].parent_id
       IN IF parent_id = None \/ parent_id \notin DOMAIN blocks THEN <<>>
          ELSE <<parent_id>> \o AncestorChain(blocks, parent_id, n - 1)

\* the ancestors of b
AncestorsOf(blocks, b) == AncestorChain(blocks, b, Cardinality(DOMAIN blocks))

\* the blocks that have b among their ancestors
DescendantSet(blocks, b) ==
  { d \in DOMAIN blocks : b \in Range(AncestorsOf(blocks, d)) }

(* ------------------------------ C1 .. C7 ------------------------------ *)

\* C1: every block that has a parent id has that parent in the page, and the
\* parent's child_ids holds the block's id exactly once
C1_ParentLinksChild ==
  \A b \in DOMAIN page.blocks :
    LET parent_id == page.blocks[b].parent_id
    IN parent_id # None =>
         /\ parent_id \in DOMAIN page.blocks
         /\ Count(page.blocks[parent_id].child_ids, b) = 1

\* C2: root_block_ids holds exactly the ids of the blocks without a parent
\* id, each once
C2_RootsExact ==
  /\ Range(page.root_block_ids) =
       { b \in DOMAIN page.blocks : page.blocks[b].parent_id = None }
  /\ \A b \in Range(page.root_block_ids) : Count(page.root_block_ids, b) = 1

\* C3: after successful add_block and remove_block calls no block is its own
\* ancestor
C3_NoCycle ==
  \A b \in DOMAIN page.blocks : b \notin Range(AncestorsOf(page.blocks, b))

\* C4: add_block of a block whose parent id is not in the page returns
\* InvalidOperation and leaves blocks, child lists and root_block_ids as they
\* were
C4_UnknownParentRefused ==
  [][\A id \in BlockIds, parent_id \in BlockIds, indent_level \in IndentLevels,
        payload \in Payloads :
       (AddBlock(id, parent_id, indent_level, payload)
          /\ parent_id \notin DOMAIN page.blocks)
       => (result' = "InvalidOperation" /\ page' = page)]_vars

\* C4 witness: an add_block was refused on a page that holds a block
C4_Witness ==
  /\ lastOp.op = "add_block"
  /\ result = "InvalidOperation"
  /\ DOMAIN page.blocks # {}

\* C5: remove_block of a known id removes the block and its descendants and
\* nothing else, takes the id out of its parent's child_ids or out of
\* root_block_ids, and leaves the rest as it was; of an unknown id it returns
\* NotFound and changes nothing
C5_RemoveFrame ==
  [][\A id \in BlockIds :
       RemoveBlock(id) =>
         IF id \in DOMAIN page.blocks
         THEN LET gone == {id} \cup DescendantSet(page.blocks, id)
                  parent_id == page.blocks[id].parent_id
              IN /\ result' = "Ok"
                 /\ DOMAIN page'.blocks = DOMAIN page.blocks \ gone
                 /\ page'.root_block_ids = Retain(page.root_block_ids, id)
                 /\ \A b \in DOMAIN page.blocks \ gone :
                      page'.blocks[b] =
                        IF b = parent_id THEN remove_child(page.blocks[b], id)
                        ELSE page.blocks[b]
         ELSE result' = "NotFound" /\ page' = page]_vars

\* C6: get_ancestors ends and returns the ancestors nearest parent first, the
\* last of them a root; nothing for a root block
C6_AncestorsChain ==
  lastOp.op = "get_ancestors" =>
    /\ result.terminates
    /\ result.ids = AncestorsOf(page.blocks, lastOp.id)
    /\ \A i \in 1..Len(result.ids) :
         /\ result.ids[i] \in DOMAIN page.blocks
         /\ page.blocks[IF i = 1 THEN lastOp.id ELSE result.ids[i - 1]].parent_id
              = result.ids[i]
    /\ result.ids # <<>> =>
         page.blocks[result.ids[Len(result.ids)]].parent_id = None
    /\ (lastOp.id \in DOMAIN page.blocks /\ page.blocks[lastOp.id].parent_id = None)
         => result.ids = <<>>

RECURSIVE PreOrder(_, _, _)
RECURSIVE PreOrderOver(_, _, _)
\* the descendants of b in pre-order, the children of a block taken in the
\* order of its child_ids; n bounds the depth
PreOrder(blocks, b, n) ==
  IF n = 0 \/ b \notin DOMAIN blocks THEN <<>>
  ELSE PreOrderOver(blocks,
         SelectSeq(blocks[b].child_ids,
                   LAMBDA c : c \in DOMAIN blocks /\ blocks[c].parent_id = b),
         n - 1)

PreOrderOver(blocks, children, n) ==
  IF children = <<>> THEN <<>>
  ELSE <<Head(children)>> \o PreOrder(blocks, Head(children), n)
         \o PreOrderOver(blocks, Tail(children), n)

\* C7: get_urls_with_context returns one entry per (block, url) pair, with
\* the references of the block's ancestors nearest first and those of its
\* descendants in pre-order of child_ids, and nothing else
C7_UrlContext ==
  lastOp.op = "get_urls_with_context" =>
    /\ result.terminates
    /\ \A b \in DOMAIN page.blocks : \A u \in Range(page.blocks[b].urls) :
         Cardinality({ i \in 1..Len(result.entries) :
                         result.entries[i].owner = b /\ result.entries[i].url = u }) = 1
    /\ \A i \in 1..Len(result.entries) :
         LET e == result.entries[i]
         IN /\ e.owner \in DOMAIN page.blocks
            /\ e.url \in Range(page.blocks[e.owner].urls)
            /\ e.owner \notin Range(AncestorsOf(page.blocks, e.owner))
            /\ e.ancestor_refs =
                 FlatRefs(page.blocks, AncestorsOf(page.blocks, e.owner))
            /\ e.descendant_refs =
                 FlatRefs(page.blocks,
                          PreOrder(page.blocks, e.owner, Cardinality(DOMAIN page.blocks)))

(* ------------------------------ C8 .. C10 ----------------------------- *)

\* what find_by_id may return for a page id, over the orders in which the
\* queries may return their rows
Loads(d, page_id) ==
  { find_by_id(d, page_id, rows) : rows \in RowOrders(d, page_id) }

\* a loaded page has the title, the block ids and, block by block, the
\* content, the parent id, the URLs and the page references of p
SameContents(loaded, p) ==
  /\ loaded.title = p.title
  /\ DOMAIN loaded.blocks = DOMAIN p.blocks
  /\ \A b \in DOMAIN p.blocks :
       /\ loaded.blocks[b].content = p.blocks[b].content
       /\ loaded.blocks[b].parent_id = p.blocks[b].parent_id
       /\ Range(loaded.blocks[b].urls) = Range(p.blocks[b].urls)
       /\ Range(loaded.blocks[b].page_references) = Range(p.blocks[b].page_references)

\* C8: after a save that succeeds, find_by_id of the page's id returns a page
\* with the same title, block ids and, per block, content, parent id, URLs
\* and page references
C8_RoundTrip ==
  (lastOp.op = "save" /\ result = "Ok") =>
    \A r \in Loads(db, page.id) :
      r.result = "Ok" /\ r.some /\ SameContents(r.page, page)

\* x comes before y in seq
Before(seq, x, y) ==
  \E i, j \in 1..Len(seq) : i < j /\ seq[i] = x /\ seq[j] = y

\* C9: after save and find_by_id the children of every block are in the
\* order they have in the saved page, whatever the iteration orders
C9_ChildOrderKept ==
  (lastOp.op = "save" /\ result = "Ok") =>
    \A r \in Loads(db, page.id) :
      (r.result = "Ok" /\ r.some) =>
        \A b \in DOMAIN page.blocks \cap DOMAIN r.page.blocks :
          \A x, y \in Range(page.blocks[b].child_ids) :
            Before(page.blocks[b].child_ids, x, y)
              => ~Before(r.page.blocks[b].child_ids, y, x)

\* C10: a save of a page whose id is stored replaces the stored page, so that
\* find_by_id returns the new title, blocks, URLs and references and nothing
\* of the old page, and the pages with other ids are as before
C10_SaveReplaces ==
  [][(Save /\ result' = "Ok" /\ page.id \in DOMAIN db.pages) =>
       /\ \A r \in Loads(db', page.id) :
            r.result = "Ok" /\ r.some /\ SameContents(r.page, page)
       /\ \A other \in PageIds \ {page.id} : Loads(db', other) = Loads(db, other)]_vars

(* ------------------------------ C11 .. C13 ---------------------------- *)

\* no id, URL or reference is held twice by a block of p
NoDuplicates(p) ==
  \A b \in DOMAIN p.blocks :
    /\ \A c \in Range(p.blocks[b].child_ids) : Count(p.blocks[b].child_ids, c) = 1
    /\ \A u \in Range(p.blocks[b].urls) : Count(p.blocks[b].urls, u) = 1
    /\ \A x \in Range(p.blocks[b].page_references) :
         Count(p.blocks[b].page_references, x) = 1

\* C11: a save of the page that has just been saved succeeds and leaves the
\* repository as the first save left it, so that find_by_id returns what it
\* returned before, with no child, URL or reference twice
C11_SaveTwice ==
  [][(lastOp.op = "save" /\ result = "Ok" /\ lastOp.page_id = page.id /\ Save) =>
       /\ result' = "Ok"
       /\ db' = db
       /\ \A r \in Loads(db', page.id) : r.some => NoDuplicates(r.page)]_vars

\* the rows a stored page owns: its pages row, its block rows and the rows
\* that hang on them
RowsOfPage(d, page_id) ==
  LET mine == BlockRowsOf(d, page_id)
  IN [stored |-> page_id \in DOMAIN d.pages,
      title |-> IF page_id \in DOMAIN d.pages THEN d.pages[page_id] ELSE "",
      blocks |-> [b \in mine |-> d.blocks[b]],
      block_children |-> { r \in d.block_children :
                             r.parent_id \in mine \/ r.child_id \in mine },
      urls |-> BagFilter(d.urls, LAMBDA r : r.block_id \in mine),
      page_references |-> BagFilter(d.page_references, LAMBDA r : r.block_id \in mine)]

\* C12: delete returns true exactly when the page was stored; afterwards
\* find_by_id finds nothing, no block, URL, reference or child-order row of
\* the page is left, and every other stored page is as it was
C12_DeleteCascades ==
  [][\A page_id \in PageIds :
       Delete(page_id) =>
         LET mine == BlockRowsOf(db, page_id)
         IN /\ result' = (page_id \in DOMAIN db.pages)
            /\ \A r \in Loads(db', page_id) : r.result = "Ok" /\ ~r.some
            /\ mine \cap DOMAIN db'.blocks = {}
            /\ \A r \in db'.block_children : r.parent_id \notin mine /\ r.child_id \notin mine
            /\ \A r \in DOMAIN db'.urls : r.block_id \notin mine
            /\ \A r \in DOMAIN db'.page_references : r.block_id \notin mine
            /\ \A other \in PageIds \ {page_id} :
                 /\ RowsOfPage(db', other) = RowsOfPage(db, other)
                 /\ Loads(db', other) = Loads(db, other)]_vars

\* the five invariants of the aggregate
InvariantsHold(p) ==
  /\ \A b \in DOMAIN p.blocks :
       /\ p.blocks[b].id = b
       /\ p.blocks[b].parent_id # None =>
            /\ p.blocks[b].parent_id \in DOMAIN p.blocks
            /\ Count(p.blocks[p.blocks[b].parent_id].child_ids, b) = 1
       /\ p.blocks[b].parent_id = None <=> Count(p.root_block_ids, b) = 1
       /\ b \notin Range(AncestorsOf(p.blocks, b))
       /\ \A c \in Range(p.blocks[b].child_ids) :
            c \in DOMAIN p.blocks /\ p.blocks[c].parent_id = b
  /\ Range(p.root_block_ids) \subseteq DOMAIN p.blocks

\* two results that carry at most one page are the same outcome and page
SameFound(a, b) ==
  /\ a.result = b.result
  /\ a.some = b.some
  /\ a.some => (a.page.id = b.page.id /\ SameContents(a.page, b.page))

\* C13: the relational and the in-memory repository give the same outcomes
\* and the same pages for the same calls with pages that satisfy the
\* invariants of the aggregate, find_all taken as a set
C13_Substitutable ==
  (InvariantsHold(page) /\ \A id \in DOMAIN mem : InvariantsHold(mem[id])) =>
    /\ lastOp.op \in {"save_both", "delete_both"} => result.sql = result.mem
    /\ lastOp.op = "find_by_id_both" => SameFound(result.sql, result.mem)
    /\ lastOp.op = "find_by_title_both" =>
         /\ result.sql.result = "Ok"
         /\ result.sql.some = result.mem.some
         /\ result.sql.some =>
              \E id \in MemTitleMatches(mem, result.title) :
                SameFound(result.sql, mem_find_by_id(mem, id))
    /\ lastOp.op = "find_all_both" =>
         /\ result.sql.result = result.mem.result
         /\ \A i \in 1..Len(result.sql.pages) : \E j \in 1..Len(result.mem.pages) :
              SameFound([result |-> "Ok", some |-> TRUE, page |-> result.sql.pages[i]],
                        [result |-> "Ok", some |-> TRUE, page |-> result.mem.pages[j]])
         /\ \A j \in 1..Len(result.mem.pages) : \E i \in 1..Len(result.sql.pages) :
              SameFound([result |-> "Ok", some |-> TRUE, page |-> result.sql.pages[i]],
                        [result |-> "Ok", some |-> TRUE, page |-> result.mem.pages[j]])

(* ------------------------------ C14 .. C18 ---------------------------- *)

\* the number of events of a kind for a path
EventCount(events, kind, file_path) ==
  Cardinality({ i \in 1..Len(events) :
                  events[i].kind = kind /\ events[i].file_path = file_path })

Saved(e) ==
  /\ e.ok
  /\ \E id \in DOMAIN e.after.repo \ DOMAIN e.before.repo :
       /\ DOMAIN e.after.repo = DOMAIN e.before.repo \cup {id}
       /\ e.after.repo[id].title = file_stem(e.file_path)
       /\ \A other \in DOMAIN e.before.repo : e.after.repo[other] = e.before.repo[other]

Failed(e) ==
  /\ ~e.ok
  /\ e.after.repo = e.before.repo
  /\ e.after.registry = e.before.registry

CountedUnchanged(e) ==
  /\ e.ok
  /\ e.after.summary =
       [e.before.summary EXCEPT !.files_unchanged = @ + 1]
  /\ e.after.events = e.before.events
  /\ e.after.repo = e.before.repo
  /\ e.after.registry = e.before.registry

\* C15: sync_once parses and saves a discovered file exactly when its path
\* is not registered or its modification time is above the registered one
\* (the parse or the save may fail, and then the file is an error of the
\* sync); every other file is counted as unchanged, with no event and no
\* change to the repository or the registry
C15_SyncDecision ==
  lastOp.op = "sync_once" =>
    \A i \in 1..Len(result.log) :
      LET e == result.log[i]
      IN IF ~e.registered \/ e.newer
         THEN /\ Saved(e) \/ Failed(e)
              /\ e.after.summary.files_unchanged = e.before.summary.files_unchanged
              /\ Saved(e) =>
                   /\ e.file_path \in DOMAIN e.after.registry
                   /\ e.after.registry[e.file_path].last_modified
                        = sync.files[e.file_path].modified
         ELSE CountedUnchanged(e)

C15_Witness ==
  /\ lastOp.op = "sync_once"
  /\ \E i, j \in 1..Len(result.log) :
       /\ Saved(result.log[i]) /\ result.log[i].newer
       /\ CountedUnchanged(result.log[j])

\* C16: a file that is parsed and saved is a FileUpdated and counts in
\* files_updated when the repository held a page of its title before the
\* save, and is a FileCreated counted in files_created otherwise; a file
\* that was synced before and is synced again is an update
C16_CreatedOrUpdated ==
  lastOp.op = "sync_once" =>
    \A i \in 1..Len(result.log) :
      LET e == result.log[i]
          kind == IF e.held_title THEN "FileUpdated" ELSE "FileCreated"
      IN Saved(e) =>
           /\ e.after.events =
                Append(e.before.events, [kind |-> kind, file_path |-> e.file_path])
           /\ e.after.summary =
                IF e.held_title
                THEN [e.before.summary EXCEPT !.files_updated = @ + 1]
                ELSE [e.before.summary EXCEPT !.files_created = @ + 1]
           /\ e.registered => e.held_title

C16_Witness ==
  /\ lastOp.op = "sync_once"
  /\ \E i \in 1..Len(result.log) :
       /\ Saved(result.log[i]) /\ result.log[i].registered /\ result.log[i].newer
  /\ result.summary.files_created = 0
  /\ result.summary.files_updated = 1

\* C17: every registered path that is not in the scan leaves the registry,
\* gets one FileDeleted event and counts in files_deleted
C17_DeletionsCounted ==
  lastOp.op = "sync_once" =>
    LET missing == result.registered \ result.scan
    IN /\ missing \cap DOMAIN sync.registry = {}
       /\ \A file_path \in missing :
            EventCount(result.events, "FileDeleted", file_path) = 1
       /\ result.summary.files_deleted = Cardinality(missing)

\* C18: a file whose parse or save fails is an entry of errors and an Error
\* event; the other discovered files are still synced, the deletions are
\* still handled, and sync_once returns the summary
C18_ErrorsIsolated ==
  lastOp.op = "sync_once" =>
    LET log == result.log
        failed == { i \in 1..Len(log) : ~log[i].ok }
        needs(e) == ~e.registered \/ e.newer
    IN /\ result.ok
       /\ { log[i].file_path : i \in 1..Len(log) } = result.scan
       /\ Len(log) = Cardinality(result.scan)
       /\ \A i \in 1..Len(log) :
            ~log[i].ok <=>
              /\ needs(log[i])
              /\ \/ sync.files[log[i].file_path].content = "bad"
                 \/ log[i].file_path \in result.save_fails
       /\ \A i \in 1..Len(log) :
            IF ~log[i].ok
            THEN /\ Cardinality({ k \in 1..Len(result.summary.errors) :
                                    result.summary.errors[k].file_path = log[i].file_path
                                    /\ result.summary.errors[k].error # "" }) = 1
                 /\ EventCount(result.events, "Error", log[i].file_path) = 1
            ELSE /\ Saved(log[i]) \/ CountedUnchanged(log[i])
                 /\ EventCount(result.events, "Error", log[i].file_path) = 0
       /\ Len(result.summary.errors) = Cardinality(failed)
       /\ result.summary.files_created + result.summary.files_updated
            + result.summary.files_unchanged = Len(log) - Cardinality(failed)
       /\ (result.registered \ result.scan) \cap DOMAIN sync.registry = {}

C18_Witness ==
  /\ lastOp.op = "sync_once"
  /\ result.summary.errors # <<>>
  /\ result.summary.files_created + result.summary.files_updated
       + result.summary.files_unchanged >= 1
  /\ result.registered \ result.scan # {}

(* ------------------------------ C19, C20 ------------------------------ *)

\* the files of a running import that fail to parse or to save
FailingFiles ==
  { file_path \in DOMAIN imp.files :
      imp.files[file_path] = "bad" \/ file_path \in imp.save_fails }

\* C19: the events of import_directory are, in this order: one Started with
\* the number of discovered files; one FileProcessed per received file, of
\* distinct discovered files, whose files_processed are 1, 2, ... in order;
\* and, once import_directory has returned and not before, one FileProcessed
\* for every discovered file followed by exactly one final event, Completed
\* when no file failed to parse or save and Failed otherwise
C19_EventSequence ==
  imp.pc # "idle" =>
    LET events == imp.events
        total_files == Cardinality(DOMAIN imp.files)
        last == IF imp.pc = "done" THEN Len(events) - 1 ELSE Len(events)
    IN /\ Len(events) >= 1
       /\ events[1] = [kind |-> "Started", file_path |-> "", count |-> total_files]
       /\ last = imp.files_processed + 1
       /\ last <= total_files + 1
       /\ \A i \in 2..last :
            /\ events[i].kind = "FileProcessed"
            /\ events[i].count = i - 1
            /\ events[i].file_path \in DOMAIN imp.files
            /\ \A j \in 2..last : events[j].file_path = events[i].file_path => j = i
       /\ imp.pc = "done" =>
            /\ last = total_files + 1
            /\ events[Len(events)].kind =
                 IF FailingFiles = {} THEN "Completed" ELSE "Failed"
            /\ result.total_files = total_files
            /\ result.pages_imported = total_files - Cardinality(FailingFiles)

\* a returned import of three files, one of them failing, whose results
\* arrived in another order than "journals/a.md", "pages/a.md", "pages/b.md"
C19_Witness ==
  /\ imp.pc = "done"
  /\ Cardinality(DOMAIN imp.files) = 3
  /\ Cardinality(FailingFiles) = 1
  /\ imp.events[Len(imp.events)].kind = "Failed"
  /\ imp.events[2].file_path = "pages/b.md"
  /\ imp.events[4].file_path = "journals/a.md"

\* the tasks that hold a permit: acquired and not yet ended
PermitHolders ==
  { file_path \in DOMAIN imp.tasks :
      imp.tasks[file_path] \in {"parsing", "sending", "sent"} }

\* C20: at every moment of import_directory at most max_concurrent_files
\* tasks hold a permit, and the permits held and left add up to it
C20_BoundedConcurrency ==
  imp.pc # "idle" =>
    /\ Cardinality(PermitHolders) <= imp.max_concurrent_files
    /\ imp.permits = imp.max_concurrent_files - Cardinality(PermitHolders)

\* more files than permits: two tasks parse and the third one waits
C20_Witness ==
  /\ imp.pc = "collecting"
  /\ imp.max_concurrent_files = 2
  /\ Cardinality(PermitHolders) = 2
  /\ \E file_path \in DOMAIN imp.tasks : imp.tasks[file_path] = "spawned"
  /\ \A file_path \in PermitHolders : imp.tasks[file_path] = "parsing"

(* --------------------------------- C21 -------------------------------- *)

\* how many entries of errors name a file
ErrorCount(errors, file_path) ==
  Cardinality({ k \in 1..Len(errors) : errors[k].file_path = file_path })

\* C21: when import_directory has returned, every discovered file was
\* received; each file that failed to parse or to save is in errors exactly
\* once and no other file is; every other file has its page in the
\* repository; and pages_imported + the number of errors = total_files
C21_ImportErrorsIsolated ==
  imp.pc = "done" =>
    /\ \A file_path \in DOMAIN imp.files :
         /\ imp.tasks[file_path] = "done"
         /\ ErrorCount(result.errors, file_path) =
              IF file_path \in FailingFiles THEN 1 ELSE 0
    /\ Len(result.errors) = Cardinality(FailingFiles)
    /\ result.pages_imported + Len(result.errors) = result.total_files
    /\ result.total_files = Cardinality(DOMAIN imp.files)
    /\ Cardinality(DOMAIN mem) = result.pages_imported
    /\ \A file_path \in DOMAIN imp.files \ FailingFiles :
         \E id \in DOMAIN mem : mem[id].title = file_stem(file_path)

\* a returned import of three files: the first received fails to parse, the
\* second fails to save, the third is imported
C21_Witness ==
  /\ imp.pc = "done"
  /\ Cardinality(DOMAIN imp.files) = 3
  /\ Len(result.errors) = 2
  /\ result.errors[1].error = "Parse error"
  /\ result.errors[2].error = "Repository error"
  /\ imp.events[4].file_path \notin FailingFiles
  /\ result.pages_imported = 1

(* --------------------------------- C22 -------------------------------- *)

\* the level of line i of the parsed file
LevelOf(i) == parser.blocks[i].indent_level

\* the lines that may be the parent of line i: one level up, with no line
\* above the level of line i in between
ParentLines(i) ==
  { j \in 1..(i - 1) :
      /\ LevelOf(j) = LevelOf(i) - 1
      /\ \A m \in (j + 1)..(i - 1) : LevelOf(m) >= LevelOf(i) }

\* the children of line j in line order
ChildLines(j) ==
  LET n == Len(parser.blocks)
      kids == { i \in 1..n : LevelOf(i) > 0 /\ j \in ParentLines(i) }
  IN SelectSeq([i \in 1..n |-> i], LAMBDA i : i \in kids)

\* C22: parse_content fails with InvalidMarkdown and returns no page exactly
\* when some line at level k > 0 has no line at level k-1 before it that is
\* not cut off by a shallower line; otherwise every line is a block, each
\* block at level k > 0 has the most recent such line as its parent and the
\* children of a block are in line order
C22_HierarchyOrError ==
  parser.done =>
    LET n == Len(parser.blocks)
        orphans == { i \in 1..n : LevelOf(i) > 0 /\ ParentLines(i) = {} }
    IN /\ parser.ok <=> orphans = {}
       /\ ~parser.ok => parser.error = "InvalidMarkdown" /\ parser.page = NoPage
       /\ parser.ok =>
            /\ DOMAIN parser.page.blocks = 1..n
            /\ parser.page.root_block_ids =
                 SelectSeq([i \in 1..n |-> i], LAMBDA i : LevelOf(i) = 0)
            /\ \A i \in 1..n :
                 /\ parser.page.blocks[i].indent_level = LevelOf(i)
                 /\ parser.page.blocks[i].child_ids = ChildLines(i)
                 /\ IF LevelOf(i) = 0
                    THEN parser.page.blocks[i].parent_id = None
                    ELSE /\ parser.page.blocks[i].parent_id \in ParentLines(i)
                         /\ \A j \in ParentLines(i) :
                              j <= parser.page.blocks[i].parent_id

\* a refused file whose orphan line had a line one level up before it, which
\* a shallower line in between had dropped
C22_Witness ==
  /\ parser.done
  /\ ~parser.ok
  /\ \E i \in 1..Len(parser.blocks) :
       /\ LevelOf(i) > 0
       /\ ParentLines(i) = {}
       /\ \E j \in 1..(i - 1) : LevelOf(j) = LevelOf(i) - 1

(* ------------------------------ C23, C24 ------------------------------ *)

\* C23: when embed_page returns successfully, chunks_stored equals the
\* number of chunks upserted into the vector store and equals
\* chunks_created, and it is above 0 when a block has non-empty content
C23_ChunksStoredCounted ==
  (lastOp.op = "embed_page" /\ result.ok) =>
    /\ result.stats.chunks_stored = embed.upserted
    /\ result.stats.chunks_stored = result.stats.chunks_created
    /\ (\E id \in DOMAIN page.blocks : word_count(page.blocks[id].content) > 0)
         => result.stats.chunks_stored > 0

\* C24: after delete_page_embeddings(page_id) the store holds no chunk of
\* that page, after delete_block_embeddings(block_id) none of that block,
\* and the chunks of other pages and blocks are as before
C24_EmbeddingsDeleted ==
  /\ lastOp.op = "delete_page_embeddings" =>
       /\ \A c \in DOMAIN embed.store : embed.store[c].page_id # lastOp.page_id
       /\ \A c \in DOMAIN embed.before :
            embed.before[c].page_id # lastOp.page_id =>
              c \in DOMAIN embed.store /\ embed.store[c] = embed.before[c]
  /\ lastOp.op = "delete_block_embeddings" =>
       /\ \A c \in DOMAIN embed.store : embed.store[c].block_id # lastOp.id
       /\ \A c \in DOMAIN embed.before :
            embed.before[c].block_id # lastOp.id =>
              c \in DOMAIN embed.store /\ embed.store[c] = embed.before[c]

(* ------------------------------ C25, C26 ------------------------------ *)

\* C25: every result's score follows the table applied to the lowercased
\* matched string and the lowercased query: 1.0 when equal, else 0.9 when
\* the string starts with the query, else 0.7 for titles and contents and
\* 0.8 for URLs
C25_ScoreTable ==
  search.done =>
    \A i \in 1..Len(search.results) :
      LET r == search.results[i]
          str == to_lowercase(r.matched)
          query == to_lowercase(search.query)
      IN r.score = IF str = query THEN ScoreExact
                   ELSE IF starts_with(str, query) THEN ScorePrefix
                   ELSE IF r.kind = "Url" THEN ScoreUrl
                   ELSE ScoreContains

\* the place of a page in the candidate list
PlaceOf(page_id) ==
  CHOOSE k \in 1..Len(search.pages) : search.pages[k].id = page_id

\* page hit, then block hits, then URL hits
KindRank(kind) == CASE kind = "Page" -> 1 [] kind = "Block" -> 2 [] OTHER -> 3

\* C26: the returned list holds every discovered result once, in
\* non-increasing score, results of equal score in the order of discovery;
\* the discovery goes page by page in candidate order and, within a page,
\* from the page hit to the block hits to the URL hits
C26_SortedStable ==
  search.done =>
    LET results == search.results
        n == Len(results)
    IN /\ { results[i].found : i \in 1..n } = 1..n
       /\ \A i, j \in 1..n :
            i < j =>
              /\ results[i].score >= results[j].score
              /\ results[i].score = results[j].score =>
                   results[i].found < results[j].found
       /\ \A i, j \in 1..n :
            results[i].found < results[j].found =>
              \/ PlaceOf(results[i].page_id) < PlaceOf(results[j].page_id)
              \/ /\ results[i].page_id = results[j].page_id
                 /\ KindRank(results[i].kind) <= KindRank(results[j].kind)

\* a sorted list in which a later discovery went ahead of an earlier one and
\* two results of the same score from two pages kept their order
C26_Witness ==
  /\ search.done
  /\ Len(search.results) >= 4
  /\ \E i, j \in 1..Len(search.results) :
       i < j /\ search.results[i].found > search.results[j].found
  /\ \E i, j \in 1..Len(search.results) :
       /\ i < j
       /\ search.results[i].score = search.results[j].score
       /\ search.results[i].page_id # search.results[j].page_id

(* -------------------------------- C27 --------------------------------- *)

\* the watched markdown files of the last batch that were gone from the
\* directory when the batch was handled
DeletedInBatch == watch.gone

\* C27: for a watched markdown file under pages/ or journals/ that was
\* deleted, the batch emits FileDeleted for its path, does not hand it to
\* parse_file, reports no Error for it, and counts it in files_deleted of
\* SyncCompleted
C27_DeletedHandled ==
  \A path \in DeletedInBatch :
    /\ \E i \in 1..Len(watch.events) :
         watch.events[i].kind = "FileDeleted" /\ watch.events[i].file_path = path
    /\ \A i \in 1..Len(watch.parsed) : watch.parsed[i] # path
    /\ \A i \in 1..Len(watch.events) :
         watch.events[i].kind = "Error" => watch.events[i].file_path # path
    /\ watch.events[Len(watch.events)].files_deleted >= Cardinality(DeletedInBatch)

(* ------------------------------ C28, C29 ------------------------------ *)

\* the rows of blocks whose parent_id names a row that is not there yet when
\* they are inserted in this order
ParentRowMissing(blocks) ==
  { i \in 1..Len(blocks) :
      /\ blocks[i].parent_id # None
      /\ \A j \in 1..i : blocks[j].id # blocks[i].parent_id }

\* C28: for every page built by successful add_block calls, whatever the
\* order in which all_blocks() yields the blocks, save inserts the row of
\* each block after the row of its parent, so that no insert fails on the
\* parent_id foreign key
C28_ParentRowFirst ==
  \A order \in Orders(DOMAIN page.blocks) :
    ParentRowMissing(sort_by_indent([i \in 1..Len(order) |-> page.blocks[order[i]]])) = {}

\* C29: a save that returns an error leaves the repository as it was, so
\* that find_by_id returns for every id what it returned before
C29_SaveAtomic ==
  [][(SaveAt /\ result' # "Ok") =>
       /\ db' = db
       /\ \A page_id \in PageIds : Loads(db', page_id) = Loads(db, page_id)]_vars

\* a save failed for a page of which an earlier version with a block is
\* stored, next to another stored page
C29_Witness ==
  /\ lastOp.op = "save"
  /\ result = "InvalidOperation"
  /\ page.id \in DOMAIN db.pages
  /\ \E b \in DOMAIN db.blocks : db.blocks[b].page_id = page.id
  /\ \E other \in DOMAIN db.pages : other # page.id

(* -------------------------------- C30 --------------------------------- *)

\* what the guards spanned: those that ended and, with what it did so far,
\* the one that is held
SpansSoFar ==
  lock.spans \cup
    (IF lock.owner = "none" THEN {}
     ELSE {[fn |-> lock.tasks[lock.owner].fn, did |-> lock.span]})

\* the calls of the repository
RepositoryCalls == {"find_by_title", "save", "delete"}

RECURSIVE Flatten(_)
\* the sequences of a sequence, one after the other
Flatten(seqs) == IF seqs = <<>> THEN <<>> ELSE Head(seqs) \o Flatten(Tail(seqs))

\* C31: when embed_page succeeds, the batches given to the embedder and the
\* store hold, one after the other, the chunks created for the page, each
\* once and in the order of creation; every batch has at most batch_size
\* chunks and all but the last have batch_size; and in every batch the i-th
\* metadata is stored with the embedding of the i-th text
C31_BatchesInOrder ==
  (lastOp.op = "embed_page" /\ result.ok) =>
    LET batches == embed.batches
        n == Len(batches)
    IN /\ Flatten([b \in 1..n |-> batches[b].texts])
            = [i \in 1..Len(embed.created) |-> embed.created[i].preprocessed_content]
       /\ Flatten([b \in 1..n |->
                     [i \in 1..Len(batches[b].pairs) |-> batches[b].pairs[i].chunk]])
            = embed.created
       /\ \A b \in 1..n :
            /\ Len(batches[b].texts) \in 1..batch_size
            /\ b < n => Len(batches[b].texts) = batch_size
            /\ Len(batches[b].pairs) = Len(batches[b].texts)
            /\ \A i \in 1..Len(batches[b].pairs) :
                 LET pair == batches[b].pairs[i]
                 IN /\ pair.embedding = [of |-> pair.chunk.preprocessed_content]
                    /\ pair.chunk.chunk_id \in DOMAIN embed.store
                    /\ embed.store[pair.chunk.chunk_id].vector = pair.embedding

\* embed_page succeeded with two full batches and a last one that is not full
C31_Witness ==
  /\ lastOp.op = "embed_page"
  /\ result.ok
  /\ Len(embed.batches) = 3
  /\ Len(embed.batches[1].texts) = batch_size
  /\ Len(embed.batches[3].texts) < batch_size

(* -------------------------------- C32 --------------------------------- *)

\* what C32 says of the chunks of a text of more than max_words words
ChunksCover ==
  LET chunks == chunker.chunks
      k == Len(chunks)
  IN /\ k >= 1
     /\ \A i \in 1..k :
          /\ chunks[i].start < chunks[i].end
          /\ chunks[i].end - chunks[i].start <= chunker.max_words
     /\ chunks[1].start = 0
     /\ \A i \in 1..(k - 1) :
          /\ chunks[i + 1].start - chunks[i].start
               = chunker.max_words - chunker.overlap_words
          /\ chunks[i].end - chunks[i + 1].start = chunker.overlap_words
          /\ chunks[i + 1].end > chunks[i].end
     /\ chunks[k].end = chunker.n
     /\ \A w \in 1..chunker.n :
          \E i \in 1..k : chunks[i].start < w /\ w <= chunks[i].end

\* C32: with overlap_words < max_words chunk_text returns; and when the text
\* has more than max_words words every chunk has at most max_words words,
\* consecutive chunks start max_words - overlap_words words apart and share
\* overlap_words words, the last chunk ends with the last word and every
\* word is in a chunk, the words of a chunk in their order
C32_ChunkTextTerminates ==
  /\ <>(chunker.pc = "done")
  /\ []((chunker.pc = "done" /\ chunker.n > chunker.max_words) => ChunksCover)

\* a text that needed three chunks or more, the last one shorter than
\* max_words
C32_Witness ==
  /\ chunker.pc = "done"
  /\ chunker.overlap_words > 0
  /\ Len(chunker.chunks) >= 3
  /\ LET last == chunker.chunks[Len(chunker.chunks)]
     IN last.end - last.start < chunker.max_words

(* -------------------------------- C33 --------------------------------- *)

\* C33: the candidate pages of a search are all pages of the repository
\* when page_filters is absent or an empty list, and else the stored pages
\* whose ids are listed, ids that are not stored being skipped
C33_CandidatePages ==
  search.done =>
    Range(search.pages) =
      IF ~search.page_filters.some \/ search.page_filters.ids = <<>>
      THEN { mem[id] : id \in DOMAIN mem }
      ELSE { mem[id] : id \in Range(search.page_filters.ids) \cap DOMAIN mem }

(* -------------------------------- C34 --------------------------------- *)

\* C34: every Url result of a search and every UrlWithContext of
\* GetLinksForPage names the block whose URL produced its context, with the
\* content and the hierarchy path of that block; a URL that two blocks hold
\* yields one result for each of the two blocks
C34_UrlNamesItsBlock ==
  /\ search.done =>
       \A i \in 1..Len(search.results) :
         search.results[i].kind = "Url" =>
           search.results[i].block_id = search.results[i].owner
  /\ search.linked = "Ok" =>
       \A i \in 1..Len(search.links) :
         LET link == search.links[i]
         IN /\ link.block_id = link.owner
            /\ link.block_content = mem["p1"].blocks[link.owner].content
            /\ link.hierarchy_path = get_hierarchy_path(mem["p1"], link.owner)

(* -------------------------------- C35 --------------------------------- *)

\* the events of a file that was found: created, updated or failed
FileEventKinds == {"FileCreated", "FileUpdated", "Error"}

\* the number of events of a kind
KindCount(events, kind) ==
  Cardinality({ i \in 1..Len(events) : events[i].kind = kind })

\* the place of a path in the order in which the scan found the files
ScanPlace(file_path) ==
  CHOOSE k \in 1..Len(result.log) : result.log[k].file_path = file_path

StemTitles == { file_stem(file_path) : file_path \in Paths }

\* C36: with a repository that upserts by page id, the repository holds one
\* page for each path of the sync registry and no other page: for every
\* title, as many pages as registered paths with that title
C36_OnePagePerPath ==
  /\ \A id \in DOMAIN mem : mem[id].title \in StemTitles
  /\ \A title \in StemTitles :
       Cardinality(MemTitleMatches(mem, title))
         = Cardinality({ file_path \in DOMAIN sync.registry :
                           sync.registry[file_path].title = title })

(* --------------------------------- C37 -------------------------------- *)

\* the ids of seq grow along it: build_hierarchy numbers the blocks by line
InLineOrder(seq) ==
  \A i, j \in DOMAIN seq : i < j => seq[i] < seq[j]

\* C37: in every page the parser returns, the indent_level of each block is
\* the number of its ancestors (0 for a root, one more than its parent's
\* for a child), and root_block_ids and every child_ids list hold the roots
\* and the children in the order of their source lines
C37_LevelsAndOrder ==
  (parser.done /\ parser.ok) =>
    LET blocks == parser.page.blocks
    IN /\ \A b \in DOMAIN blocks :
            /\ blocks[b].indent_level = Len(AncestorsOf(blocks, b))
            /\ blocks[b].parent_id = None => blocks[b].indent_level = 0
            /\ blocks[b].parent_id # None =>
                 /\ blocks[b].parent_id \in DOMAIN blocks
                 /\ blocks[b].indent_level
                      = blocks[blocks[b].parent_id].indent_level + 1
            /\ InLineOrder(blocks[b].child_ids)
            /\ Range(blocks[b].child_ids)
                 = { c \in DOMAIN blocks : blocks[c].parent_id = b }
       /\ InLineOrder(parser.page.root_block_ids)
       /\ Range(parser.page.root_block_ids)
            = { b \in DOMAIN blocks : blocks[b].parent_id = None }

\* a parsed page with a block two levels down and a block with two children
C37_Witness ==
  /\ parser.done
  /\ parser.ok
  /\ \E b \in DOMAIN parser.page.blocks :
       parser.page.blocks[b].indent_level = 2
  /\ \E b \in DOMAIN parser.page.blocks :
       Len(parser.page.blocks[b].child_ids) >= 2

(* --------------------------------- C38 -------------------------------- *)

\* C38: every import_directory call ends: it emits Completed or Failed and
\* returns its summary (the step that sets pc to done), whatever the number of files and whatever value
\* with_concurrency stored in max_concurrent_files
C38_ImportTerminates ==
  (imp.pc = "collecting") ~>
    /\ imp.pc = "done"
    /\ imp.events[Len(imp.events)].kind \in {"Completed", "Failed"}

(* --------------------------------- C39 -------------------------------- *)

\* a task that holds both mutexes got the registry mutex first
LockOrder ==
  \A t \in ConcTasks :
    conc.held[t] \in {<<>>, <<"registry">>, <<"repository">>,
                      <<"registry", "repository">>}

\* while a caller is in a function of the service, some caller can go on
NoDeadlock ==
  (\E t \in ConcTasks : conc.tasks[t].pc # "idle") => \E t \in ConcTasks : CanStep(t)

\* no two sync_once calls that ran at the same time saved the same version
\* of the file
NoDoubleSave ==
  \A t \in SyncTasks :
    conc.tasks[t].saved # 0 => conc.tasks[t].saved \notin conc.tasks[t].seen

\* no two saves of sync_file were made for the same modification time read
\* from the metadata of the file while its registry entry stayed
OneSavePerModification ==
  \A i, j \in DOMAIN conc.saved :
    (/\ conc.saved[i].modified = conc.saved[j].modified
     /\ conc.saved[i].removals = conc.saved[j].removals) => i = j

\* C39: concurrent calls on one SyncService cannot deadlock, a task that
\* holds both mutexes took the registry mutex before the repository mutex,
\* and sync_once calls, concurrent or not, never save a file twice for the
\* same modification time read while the file stays in the registry
C39_LockOrderOneSave ==
  /\ LockOrder
  /\ NoDeadlock
  /\ OneSavePerModification

\* C39 as stated: concurrent calls on one SyncService cannot deadlock, a
\* task that holds both mutexes took the registry mutex before the
\* repository mutex, and two concurrent sync_once calls never both save the
\* same new or modified file
C39_NoDeadlockNoDoubleSave ==
  /\ LockOrder
  /\ NoDeadlock
  /\ NoDoubleSave

\* one caller of sync_once holds both mutexes and is about to save the
\* file, the other read the same modification time and waits for the
\* registry mutex, and the watching task waits for the repository mutex
C39_Witness ==
  \E t, u \in SyncTasks :
    /\ t # u
    /\ conc.tasks[t].pc = "save"
    /\ conc.held[t] = <<"registry", "repository">>
    /\ conc.tasks[u].pc = "registry"
    /\ conc.tasks[u].modified = conc.tasks[t].modified
    /\ conc.tasks["watch"].pc = "repository_save"

====
